---- MODULE Spec2Model ----
(***************************************************************************)
(* A model of look4bas' Gaussian94 reader and writer                       *)
(* (look4bas/gaussian94.py).                                               *)
(*                                                                         *)
(* Text.  A string is modelled as the sequence of its lines (what          *)
(* str.split("\n") returns), a line as the sequence of its whitespace-     *)
(* separated tokens (what str.split() returns).  A token is a record       *)
(*   [k |-> "w", s |-> spelling, v |-> 0]   a word,                        *)
(*   [k |-> "i", s |-> "",       v |-> n]   an integer literal n,          *)
(*   [k |-> "f", s |-> "",       v |-> u]   a decimal literal without      *)
(*                                          exponent marker,               *)
(*   [k |-> "x", s |-> marker,   v |-> u]   a literal with exponent        *)
(*                                          marker e, E, d or D.           *)
(* Lines carry no leading or trailing blanks, so an empty line is the      *)
(* empty sequence and a comment line is one whose first token is "!".      *)
(* Numbers.  A float is an integer number u of units of 10^-8 (1.5 is      *)
(* 150000000).  Reading a literal yields its value; writing a value        *)
(* rounds it to the digits the format string prints.                       *)
(***************************************************************************)
EXTENDS Integers, Sequences, FiniteSets, TLC

VARIABLES texts, docs, ops, err, warned, out, opts

vars == <<texts, docs, ops, err, warned, out, opts>>

----------------------------------------------------------------------------
(* Tokens and numbers *)

W(s) == [k |-> "w", s |-> s, v |-> 0]
I(n) == [k |-> "i", s |-> "", v |-> n]
F(u) == [k |-> "f", s |-> "", v |-> u]
X(m, u) == [k |-> "x", s |-> m, v |-> u]

Unit == 10^8

MARKER == W("****")

\* A variant of str.lower() that leaves the case as it is; the properties on
\* the case of symbols and letters tell the two apart.
SameCase(s) == s

\* str.lower() and str.upper() on the spellings that occur in the model.
Lower(s) ==
  CASE s = "X" -> "x" [] s = "H" -> "h" [] s = "He" -> "he" [] s = "HE" -> "he"
    [] s = "Li" -> "li" [] s = "LI" -> "li" [] s = "Be" -> "be" [] s = "BE" -> "be"
    [] s = "Zz" -> "zz" [] s = "S" -> "s" [] s = "P" -> "p" [] s = "SP" -> "sp"
    [] s = "Sp" -> "sp" [] s = "D" -> "d" [] s = "Q" -> "q"
    [] s = "F" -> "f" [] s = "G" -> "g" [] s = "I" -> "i" [] s = "J" -> "j"
    [] s = "K" -> "k" [] s = "L" -> "l" [] s = "M" -> "m" [] s = "N" -> "n"
    [] s = "O" -> "o"
    [] OTHER -> s

Upper(s) ==
  CASE s = "x" -> "X" [] s = "h" -> "H" [] s = "he" -> "HE" [] s = "He" -> "HE"
    [] s = "li" -> "LI" [] s = "Li" -> "LI" [] s = "be" -> "BE" [] s = "Be" -> "BE"
    [] s = "Zz" -> "ZZ" [] s = "s" -> "S" [] s = "p" -> "P" [] s = "sp" -> "SP"
    [] s = "Sp" -> "SP" [] s = "d" -> "D" [] s = "q" -> "Q"
    [] s = "look4bas" -> "LOOK4BAS" [] s = "pc-2" -> "PC-2"
    [] OTHER -> s

\* A variant of the table without its last letter; the properties on the
\* angular momenta dumps accepts tell the two apart.
NumberToAmUpToN == <<"S", "P", "D", "F", "G", "H", "I", "J", "K", "L", "M", "N">>

NUMBER_TO_AM == <<"S", "P", "D", "F", "G", "H", "I", "J", "K", "L", "M", "N", "O">>

\* The element table handed to loads and dumps: the first entries of
\* elements.iupac_list(); the atomic number is the (0-based) position.
ElemList == <<"X", "H", "He", "Li", "Be">>
ElemNames == <<"dummy", "hydrogen", "helium", "lithium", "beryllium">>

\* list.index(x), 0-based; -1 stands for the ValueError of a missing item.
Index(seq, x) ==
  IF \E i \in 1..Len(seq) : seq[i] = x
  THEN (CHOOSE i \in 1..Len(seq) : seq[i] = x /\ \A j \in 1..(i - 1) : seq[j] # x) - 1
  ELSE -1

\* seq[i] with Python's negative indices; InRange is its IndexError test.
InRange(seq, i) == -Len(seq) <= i /\ i < Len(seq)
PyGet(seq, i) == IF i >= 0 THEN seq[i + 1] ELSE seq[Len(seq) + i + 1]

\* seq[a:b] with Python's clamping of slice bounds.
Clamp(n, len) == IF n < 0 THEN (IF n + len < 0 THEN 0 ELSE n + len)
                 ELSE (IF n > len THEN len ELSE n)
PySlice(seq, a, b) ==
  LET lo == Clamp(a, Len(seq))
      hi == Clamp(b, Len(seq))
  IN  IF lo < hi THEN SubSeq(seq, lo + 1, hi) ELSE <<>>

\* int(token): only an integer literal converts.
IsInt(tok) == tok.k = "i"

\* A variant that replaces the lower-case marker only; the properties on
\* the Fortran notation tell the two apart.
ReplaceLowerD(tok) ==
  IF tok.k = "x" THEN [tok EXCEPT !.s = IF tok.s = "d" THEN "e" ELSE tok.s] ELSE tok

\* string.replace("d", "e").replace("D", "E") on a numeric literal changes
\* its exponent marker.
ReplaceDE(tok) ==
  IF tok.k = "x"
  THEN [tok EXCEPT !.s = IF tok.s = "d" THEN "e" ELSE IF tok.s = "D" THEN "E" ELSE tok.s]
  ELSE tok

\* float(token): integer and decimal literals, and literals whose exponent
\* marker is e or E.
PyFloatOk(tok) == tok.k \in {"i", "f"} \/ (tok.k = "x" /\ tok.s \in {"e", "E"})
PyFloat(tok) == IF tok.k = "i" THEN tok.v * Unit ELSE tok.v

FloatFortranOk(tok) == PyFloatOk(ReplaceDE(tok))
FloatFortran(tok) == PyFloat(ReplaceDE(tok))

----------------------------------------------------------------------------
(* Outcomes of a call: a value, or the exception that ended it.  "Diverge" *)
(* stands for a loop that never ends.                                      *)

Ok(val) == [err |-> "none", val |-> val]
Raise(e) == [err |-> e, val |-> <<>>]

----------------------------------------------------------------------------
(* gaussian94.loads *)

IsCommentLine(line) == Len(line) > 0 /\ line[1] = W("!")

RECURSIVE StripComments(_)
\* __strip_comments: the lines that are neither empty nor comments.
StripComments(lines) ==
  IF lines = <<>> THEN <<>>
  ELSE LET l == Head(lines)
           rest == StripComments(Tail(lines))
       IN  IF Len(l) = 0 \/ IsCommentLine(l) THEN rest ELSE <<l>> \o rest

ParseContractions(lines, ncols) ==
  IF \E i \in 1..Len(lines) :
       \/ Len(lines[i]) # ncols
       \/ \E j \in 1..ncols : ~FloatFortranOk(lines[i][j])
  THEN Raise("ValueError")
  ELSE Ok([j \in 1..ncols |-> [i \in 1..Len(lines) |-> FloatFortran(lines[i][j])]])

Contraction(am, coefficients, exponents) ==
  [angular_momentum |-> am, coefficients |-> coefficients, exponents |-> exponents]

\* A variant of SPContractions that hands the s column to both contractions;
\* the properties of SP shells tell the two apart.
SPContractionsSameColumn(cols) ==
  <<Contraction(0, cols[2], cols[1]), Contraction(1, cols[2], cols[1])>>

\* The two contractions appended for an SP shell; cols are the columns
\* exponents, s_coefficients, p_coefficients.
SPContractions(cols) ==
  <<Contraction(0, cols[2], cols[1]), Contraction(1, cols[3], cols[1])>>

RECURSIVE BlockLoop(_, _, _, _)
\* The while loop of __parse_element_block; fuel counts its iterations.
BlockLoop(lines, idx, functions, fuel) ==
  IF ~(idx < Len(lines)) THEN Ok(functions)
  ELSE IF fuel = 0 THEN Raise("Diverge")
  ELSE IF ~InRange(lines, idx) THEN Raise("IndexError")
  ELSE LET line == PyGet(lines, idx)
       IN  IF Len(line) < 3 THEN Raise("ValueError")
           ELSE IF ~IsInt(line[2]) THEN Raise("ValueError")
           ELSE LET amstr == Upper(line[1].s)
                    n_contr == line[2].v
                    data == PySlice(lines, idx + 1, idx + n_contr + 1)
                IN  IF line[1].k = "w" /\ amstr = "SP"
                    THEN LET c == ParseContractions(data, 3)
                         IN  IF c.err # "none" THEN c
                             ELSE BlockLoop(lines, idx + n_contr + 1,
                                    functions \o SPContractions(c.val), fuel - 1)
                    ELSE IF line[1].k # "w" \/ Index(NUMBER_TO_AM, amstr) < 0
                    THEN Raise("ValueError")
                    ELSE LET c == ParseContractions(data, 2)
                         IN  IF c.err # "none" THEN c
                             ELSE BlockLoop(lines, idx + n_contr + 1,
                                    Append(functions,
                                      Contraction(Index(NUMBER_TO_AM, amstr), c.val[2], c.val[1])),
                                    fuel - 1)

ParseElementBlock(block, elem_symbols_lower) ==
  LET lines == StripComments(block)
  IN  IF Len(lines) = 0 THEN Raise("IndexError")
      ELSE IF Len(lines[1]) < 2 THEN Raise("ValueError")
      ELSE IF lines[1][1].k # "w" \/ Index(elem_symbols_lower, Lower(lines[1][1].s)) < 0
      THEN Raise("ValueError")
      ELSE LET r == BlockLoop(lines, 1, <<>>, 2 * Len(lines) + 1)
           IN  IF r.err # "none" THEN r
               ELSE Ok([functions |-> r.val,
                        atnum |-> Index(elem_symbols_lower, Lower(lines[1][1].s))])

NL == W("\n")

RECURSIVE Flatten(_)
\* The token stream of a text, its line breaks as NL tokens.
Flatten(text) ==
  IF Len(text) = 0 THEN <<>>
  ELSE IF Len(text) = 1 THEN text[1]
  ELSE text[1] \o <<NL>> \o Flatten(Tail(text))

RECURSIVE SplitAt(_, _)
\* str.split(sep) on a token stream: the pieces between the sep tokens.
SplitAt(s, sep) ==
  IF \A i \in 1..Len(s) : s[i] # sep THEN <<s>>
  ELSE LET i == CHOOSE i \in 1..Len(s) : s[i] = sep /\ \A j \in 1..(i - 1) : s[j] # sep
       IN  <<SubSeq(s, 1, i - 1)>> \o SplitAt(SubSeq(s, i + 1, Len(s)), sep)

\* str.strip() on a block: leading and trailing empty lines go.
Strip(lines) ==
  LET full == {i \in 1..Len(lines) : Len(lines[i]) > 0}
  IN  IF full = {} THEN <<>>
      ELSE SubSeq(lines, CHOOSE i \in full : \A j \in full : i <= j,
                         CHOOSE i \in full : \A j \in full : j <= i)

\* [b.strip() for b in string.split("****")], each block as its lines.
SplitBlocks(text) ==
  LET pieces == SplitAt(Flatten(text), MARKER)
  IN  [b \in 1..Len(pieces) |-> Strip(SplitAt(pieces[b], NL))]

\* __is_ecp_section; cgtoKeys are the atomic numbers parsed so far.
IsEcpSection(lines, cgtoKeys, elem_symbols_lower) ==
  IF Len(lines) < 5 THEN Ok(FALSE)
  ELSE IF Len(lines[1]) # 2 \/ Len(lines[2]) # 3 \/ Len(lines[5]) # 3 THEN Ok(FALSE)
  ELSE IF lines[1][1].k # "w" \/ Index(elem_symbols_lower, Lower(lines[1][1].s)) < 0
  THEN Raise("ValueError")
  ELSE Ok(Index(elem_symbols_lower, Lower(lines[1][1].s)) \in cgtoKeys)

\* The components of one radial part: lines[i .. i+n-1] (0-based).
EcpComponents(lines, i, n) ==
  IF \E c \in 0..(n - 1) :
       \/ Len(PyGet(lines, i + c)) # 3
       \/ ~IsInt(PyGet(lines, i + c)[1])
       \/ ~FloatFortranOk(PyGet(lines, i + c)[2])
       \/ ~FloatFortranOk(PyGet(lines, i + c)[3])
  THEN Raise("ValueError")
  ELSE Ok([polynomial_powers |-> [c \in 1..n |-> PyGet(lines, i + c - 1)[1].v],
           gaussian_exponents |-> [c \in 1..n |-> FloatFortran(PyGet(lines, i + c - 1)[2])],
           coefficients |-> [c \in 1..n |-> FloatFortran(PyGet(lines, i + c - 1)[3])]])

RECURSIVE RadialLoop(_, _, _, _, _, _)
\* The loop over the radial parts am..max_am of one ECP record, from line i.
\* bound says whether n_components holds a value from an earlier part.
RadialLoop(lines, i, am, max_am, parts, bound) ==
  IF am > max_am THEN Ok([i |-> i, parts |-> parts, bound |-> bound])
  ELSE IF i + 1 >= Len(lines) THEN Raise("ValueError")
  ELSE IF ~InRange(lines, i) \/ ~InRange(lines, i + 1) THEN Raise("IndexError")
  ELSE LET count == PyGet(lines, i + 1)
       IN  IF Len(count) # 1 \/ ~IsInt(count[1])
           THEN Raise(IF bound THEN "ValueError" ELSE "UnboundLocalError")
           ELSE LET n == count[1].v
                IN  IF i + 2 + n > Len(lines) THEN Raise("ValueError")
                    ELSE IF \E c \in 0..(n - 1) : ~InRange(lines, i + 2 + c)
                    THEN Raise("IndexError")
                    ELSE LET comp == EcpComponents(lines, i + 2, n)
                         IN  IF comp.err # "none" THEN comp
                             ELSE RadialLoop(lines, i + 2 + n, am + 1, max_am,
                                    Append(parts, comp.val @@ [title |-> PyGet(lines, i)]),
                                    TRUE)

RECURSIVE EcpLoop(_, _, _, _, _, _)
\* The while loop of __parse_ecp_section; fuel counts its iterations.
EcpLoop(lines, i, ret, bound, fuel, elem_symbols_lower) ==
  IF ~(i < Len(lines)) THEN Ok(ret)
  ELSE IF fuel = 0 THEN Raise("Diverge")
  ELSE IF ~InRange(lines, i) THEN Raise("IndexError")
  ELSE IF i + 1 >= Len(lines) THEN Raise("ValueError")
  ELSE LET line0 == PyGet(lines, i)
           line1 == PyGet(lines, i + 1)
       IN  IF Len(line0) # 2 THEN Raise("ValueError")
           ELSE IF line0[2] # I(0) THEN Raise("ValueError")
           ELSE IF line0[1].k # "w" \/ Index(elem_symbols_lower, Lower(line0[1].s)) < 0
           THEN Raise("ValueError")
           ELSE IF Len(line1) # 3 THEN Raise("ValueError")
           ELSE IF ~IsInt(line1[2]) \/ ~IsInt(line1[3]) THEN Raise("ValueError")
           ELSE LET r == RadialLoop(lines, i + 2, 0, line1[2].v, <<>>, bound)
                IN  IF r.err # "none" THEN r
                    ELSE EcpLoop(lines, r.val.i,
                           Append(ret,
                             [ecp |-> [name |-> line1[1],
                                       max_angular_momentum |-> line1[2].v,
                                       n_electrons_removed |-> line1[3].v,
                                       radial_parts |-> r.val.parts],
                              atnum |-> Index(elem_symbols_lower, Lower(line0[1].s))]),
                           r.val.bound, fuel - 1, elem_symbols_lower)

ParseEcpSection(lines, elem_symbols_lower) ==
  EcpLoop(lines, 0, <<>>, FALSE, 2 * Len(lines) + 1, elem_symbols_lower)

EmptyDict == [k \in {} |-> 0]

RECURSIVE CgtoLoop(_, _, _, _)
\* The loop of loads over blocks[1:-1] (here b .. Len(blocks)-1) filling cgtos.
CgtoLoop(blocks, b, cgtos, elem_symbols_lower) ==
  IF b >= Len(blocks) THEN Ok(cgtos)
  ELSE LET elem == ParseElementBlock(blocks[b], elem_symbols_lower)
       IN  IF elem.err # "none" THEN elem
           ELSE CgtoLoop(blocks, b + 1,
                  [k \in DOMAIN cgtos \cup {elem.val.atnum} |->
                     IF k = elem.val.atnum THEN elem.val ELSE cgtos[k]],
                  elem_symbols_lower)

\* {ecp["atnum"]: ecp for ecp in ecps}: a later record replaces an earlier one.
EcpDict(ecps) ==
  [k \in {ecps[i].atnum : i \in 1..Len(ecps)} |->
     ecps[CHOOSE i \in 1..Len(ecps) :
            ecps[i].atnum = k /\ \A j \in (i + 1)..Len(ecps) : ecps[j].atnum # k]]

\* item = cgtos.get(k, {}); item.update(ecps.get(k, {}))
MergeItem(cgtos, ecps, k) ==
  LET item == IF k \in DOMAIN cgtos THEN cgtos[k] ELSE EmptyDict
  IN  IF k \in DOMAIN ecps THEN ecps[k] @@ item ELSE item

\* The merge loop of loads, up to the order of its result: the entries by
\* atomic number.
LoadsMerge(cgtos, ecps) ==
  Ok([k \in DOMAIN cgtos \cup DOMAIN ecps |-> MergeItem(cgtos, ecps, k)])

\* loads once __parse_ecp_section has returned or raised.
LoadsEcps(cgtos, ecps) ==
  IF ecps.err # "none" THEN ecps ELSE LoadsMerge(cgtos, EcpDict(ecps.val))

\* loads once __is_ecp_section has returned or raised.
LoadsTrailing(cgtos, final_block, isecp, elem_symbols_lower) ==
  IF isecp.err # "none" THEN isecp
  ELSE IF ~isecp.val THEN Raise("ValueError")
  ELSE LoadsEcps(cgtos, ParseEcpSection(final_block, elem_symbols_lower))

\* loads once the element blocks are parsed (cg is the outcome).
LoadsFinal(cg, final_block, elem_symbols_lower) ==
  IF cg.err # "none" THEN cg
  ELSE IF Len(final_block) = 0 THEN LoadsMerge(cg.val, EmptyDict)
  ELSE LoadsTrailing(cg.val, final_block,
         IsEcpSection(final_block, DOMAIN cg.val, elem_symbols_lower),
         elem_symbols_lower)

\* loads once the text is split into blocks.
LoadsBlocks(blocks, elem_symbols_lower) ==
  IF Len(blocks) < 2 THEN Raise("ValueError")
  ELSE IF Len(StripComments(blocks[1])) > 0 THEN Raise("ValueError")
  ELSE LoadsFinal(CgtoLoop(blocks, 2, EmptyDict, elem_symbols_lower),
                  StripComments(blocks[Len(blocks)]), elem_symbols_lower)

\* loads up to the order of its result.
LoadsDict(text) ==
  LoadsBlocks(SplitBlocks(text), [i \in 1..Len(ElemList) |-> Lower(ElemList[i])])

\* The orders in which iterating over a set of keys can yield them: the
\* language leaves the iteration order of a set open.
SetOrders(keys) ==
  {o \in [1..Cardinality(keys) -> keys] :
     \A i, j \in 1..Cardinality(keys) : i # j => o[i] # o[j]}

\* for k in set(cgtos.keys()).union(set(ecps.keys())): ret.append(item)
OrderedResults(d) ==
  IF d.err # "none" THEN {d}
  ELSE {Ok([i \in 1..Len(o) |-> d.val[o[i]]]) : o \in SetOrders(DOMAIN d.val)}

\* The documents loads can return for a text, or the exception it raises.
LoadsResults(text) == OrderedResults(LoadsDict(text))

----------------------------------------------------------------------------
(* gaussian94.dumps *)

ExpDecimals == 7
CoefDigits == 8

Abs(n) == IF n < 0 THEN -n ELSE n

\* n rounded to the nearest multiple of q, ties to the even multiple.
RoundTo(n, q) ==
  LET a == Abs(n)
      lo == (a \div q) * q
      r == a - lo
      up == IF 2 * r > q \/ (2 * r = q /\ (a \div q) % 2 = 1) THEN lo + q ELSE lo
  IN  IF n < 0 THEN -up ELSE up

\* The number of decimal digits of n > 0.
Digits(n) == CHOOSE d \in 1..10 : n >= 10^(d - 1) /\ (d = 10 \/ n < 10^d)

\* "{0:15.7f}": a decimal literal with ExpDecimals places.
FmtExp(u) == F(RoundTo(u, 10^(8 - ExpDecimals)))

\* "{1: #11.8G}": CoefDigits significant digits; exponent notation with E
\* below 10^-4.
FmtCoef(u) ==
  LET r == IF u = 0 \/ Digits(Abs(u)) <= CoefDigits THEN u
           ELSE RoundTo(u, 10^(Digits(Abs(u)) - CoefDigits))
  IN  IF u # 0 /\ Abs(u) < 10^4 THEN X("E", r) ELSE F(r)

\* A variant of the lines of one contraction whose header declares one
\* primitive more than follow; the properties on the declared number tell
\* the two apart.
DumpFunctionOneMore(fun) ==
  <<<<W(PyGet(NUMBER_TO_AM, fun.angular_momentum)), I(Len(fun.coefficients) + 1), F(Unit)>>>>
  \o [i \in 1..Len(fun.coefficients) |->
        <<FmtExp(fun.exponents[i]), FmtCoef(fun.coefficients[i])>>]

\* The lines of one contraction: the header and one line per coefficient.
DumpFunction(fun) ==
  <<<<W(PyGet(NUMBER_TO_AM, fun.angular_momentum)), I(Len(fun.coefficients)), F(Unit)>>>>
  \o [i \in 1..Len(fun.coefficients) |->
        <<FmtExp(fun.exponents[i]), FmtCoef(fun.coefficients[i])>>]

RECURSIVE DumpFunctions(_, _)
\* The loop of dumps over atom["functions"] from position f.
DumpFunctions(functions, f) ==
  IF f > Len(functions) THEN Ok(<<>>)
  ELSE IF Len(functions[f].coefficients) # Len(functions[f].exponents)
  THEN Raise("ValueError")
  ELSE IF ~InRange(NUMBER_TO_AM, functions[f].angular_momentum) THEN Raise("IndexError")
  ELSE LET rest == DumpFunctions(functions, f + 1)
       IN  IF rest.err # "none" THEN rest
           ELSE Ok(DumpFunction(functions[f]) \o rest.val)

RECURSIVE DumpAtoms(_, _, _, _)
\* A variant of the loop of dumps that writes the symbol in upper case; the
\* properties on the spelling of the element line tell the two apart.
DumpAtomsUpper(data, a, lines, w) ==
  IF a > Len(data) THEN [err |-> "none", val |-> lines, warned |-> w]
  ELSE IF ~InRange(ElemList, data[a].atnum)
  THEN [err |-> "IndexError", val |-> <<>>, warned |-> w]
  ELSE IF "functions" \notin DOMAIN data[a]
  THEN [err |-> "KeyError", val |-> <<>>, warned |-> w]
  ELSE LET fs == DumpFunctions(data[a].functions, 1)
       IN  IF fs.err # "none" THEN [err |-> fs.err, val |-> <<>>, warned |-> w]
           ELSE DumpAtoms(data, a + 1,
                  lines \o <<<<MARKER>>, <<W(Upper(PyGet(ElemList, data[a].atnum))), I(0)>>>>
                        \o fs.val,
                  w \/ "ecp" \in DOMAIN data[a])

\* The loop of dumps over data from position a; lines and warned accumulate.
DumpAtoms(data, a, lines, w) ==
  IF a > Len(data) THEN [err |-> "none", val |-> lines, warned |-> w]
  ELSE LET atom == data[a]
       IN  IF ~InRange(ElemList, atom.atnum)
           THEN [err |-> "IndexError", val |-> <<>>, warned |-> w]
           ELSE IF "functions" \notin DOMAIN atom
           THEN [err |-> "KeyError", val |-> <<>>, warned |-> w]
           ELSE LET fs == DumpFunctions(atom.functions, 1)
                IN  IF fs.err # "none" THEN [err |-> fs.err, val |-> <<>>, warned |-> w]
                    ELSE DumpAtoms(data, a + 1,
                           lines \o <<<<MARKER>>, <<W(PyGet(ElemList, atom.atnum)), I(0)>>>>
                                 \o fs.val,
                           w \/ "ecp" \in DOMAIN atom)

\* gaussian94.dumps: "\n".join(lines) with the final "****\n".
DumpsG94(data) ==
  LET r == DumpAtoms(data, 1, <<>>, FALSE)
  IN  IF r.err # "none" THEN r
      ELSE [r EXCEPT !.val = r.val \o <<<<MARKER>>, <<>>>>]

----------------------------------------------------------------------------
(* basis_format: the dumpers of the other formats.  Each returns its lines, *)
(* or raises; warned tells whether the warning that ECP definitions are     *)
(* ignored was emitted before the call ended.                               *)

\* look4bas.__version__
VERSION == "0.2.3"

\* The values of the keyword arguments: a str, or None.
PyStr(s) == [type |-> "str", val |-> s]
None == [type |-> "NoneType", val |-> "None"]
IsNone(x) == x.type = "NoneType"

\* kwargs.get(key, default)
KwGet(kwargs, key, default) == IF key \in DOMAIN kwargs THEN kwargs[key] ELSE default

\* "{1: #11.9G}", "{1: #16.8G}": p significant digits; exponent notation
\* with E below 10^-4.
FmtG(u, p) ==
  LET r == IF u = 0 \/ Digits(Abs(u)) <= p THEN u
           ELSE RoundTo(u, 10^(Digits(Abs(u)) - p))
  IN  IF u # 0 /\ Abs(u) < 10^4 THEN X("E", r) ELSE F(r)

\* Whether any atom of data carries ECP data.
AnyEcp(data) == \E a \in 1..Len(data) : "ecp" \in DOMAIN data[a]

RECURSIVE NwchemFunctions(_, _, _)
\* nwchem.dumps: the loop over atom["functions"] from position f.
NwchemFunctions(elem, functions, f) ==
  IF f > Len(functions) THEN Ok(<<>>)
  ELSE IF Len(functions[f].coefficients) # Len(functions[f].exponents)
  THEN Raise("ValueError")
  ELSE IF ~InRange(NUMBER_TO_AM, functions[f].angular_momentum) THEN Raise("IndexError")
  ELSE LET rest == NwchemFunctions(elem, functions, f + 1)
       IN  IF rest.err # "none" THEN rest
           ELSE Ok(<<<<W(elem), W(PyGet(NUMBER_TO_AM, functions[f].angular_momentum))>>>>
                   \o [i \in 1..Len(functions[f].coefficients) |->
                         <<FmtExp(functions[f].exponents[i]),
                           FmtG(functions[f].coefficients[i], 9)>>]
                   \o rest.val)

RECURSIVE NwchemAtoms(_, _, _)
\* nwchem.dumps: the loop over data from position a.
NwchemAtoms(data, a, lines) ==
  IF a > Len(data) THEN Ok(lines)
  ELSE IF ~InRange(ElemList, data[a].atnum) THEN Raise("IndexError")
  ELSE IF "functions" \notin DOMAIN data[a] THEN Raise("KeyError")
  ELSE LET fs == NwchemFunctions(PyGet(ElemList, data[a].atnum), data[a].functions, 1)
       IN  IF fs.err # "none" THEN fs
           ELSE NwchemAtoms(data, a + 1,
                  lines \o <<<<W("#"), W(PyGet(ElemNames, data[a].atnum))>>>> \o fs.val)

\* nwchem.dumps: "basis", the atoms, "end" and a final newline.
DumpsNwchem(data) ==
  LET r == NwchemAtoms(data, 1, <<<<W("basis")>>>>)
  IN  IF r.err # "none" THEN [err |-> r.err, val |-> <<>>, warned |-> FALSE]
      ELSE [err |-> "none", val |-> r.val \o <<<<W("end")>>, <<>>>>,
            warned |-> AnyEcp(data)]

RECURSIVE OrcaFunctions(_, _)
\* orca.dumps: the loop over atom["functions"] from position f.
OrcaFunctions(functions, f) ==
  IF f > Len(functions) THEN Ok(<<>>)
  ELSE IF Len(functions[f].coefficients) # Len(functions[f].exponents)
  THEN Raise("ValueError")
  ELSE IF ~InRange(NUMBER_TO_AM, functions[f].angular_momentum) THEN Raise("IndexError")
  ELSE LET rest == OrcaFunctions(functions, f + 1)
       IN  IF rest.err # "none" THEN rest
           ELSE Ok(<<<<W(PyGet(NUMBER_TO_AM, functions[f].angular_momentum)),
                       I(Len(functions[f].coefficients))>>>>
                   \o [i \in 1..Len(functions[f].coefficients) |->
                         <<I(i), FmtExp(functions[f].exponents[i]),
                           FmtG(functions[f].coefficients[i], 9)>>]
                   \o rest.val)

RECURSIVE OrcaAtoms(_, _, _, _)
\* orca.dumps: the loop over data from position a; the warning is emitted
\* at the end of each atom that carries ECP data.
OrcaAtoms(data, a, lines, w) ==
  IF a > Len(data) THEN [err |-> "none", val |-> lines, warned |-> w]
  ELSE IF "functions" \notin DOMAIN data[a]
  THEN [err |-> "KeyError", val |-> <<>>, warned |-> w]
  ELSE LET fs == OrcaFunctions(data[a].functions, 1)
       IN  IF fs.err # "none" THEN [err |-> fs.err, val |-> <<>>, warned |-> w]
           ELSE OrcaAtoms(data, a + 1,
                  lines \o <<<<W("NewGTO"), I(data[a].atnum)>>>> \o fs.val \o <<<<W("end")>>>>,
                  w \/ "ecp" \in DOMAIN data[a])

\* A variant of orca.dumps without the closing "end"; the properties on the
\* delimiter lines tell the two apart.
DumpsOrcaUnclosed(data) == OrcaAtoms(data, 1, <<<<W("%basis")>>>>, FALSE)

\* orca.dumps: "%basis", the atoms, "end"; no final newline.
DumpsOrca(data) ==
  LET r == OrcaAtoms(data, 1, <<<<W("%basis")>>>>, FALSE)
  IN  IF r.err # "none" THEN r
      ELSE [r EXCEPT !.val = r.val \o <<<<W("end")>>>>]

RECURSIVE QchemFunctions(_, _)
\* qchem.dumps: the loop over atom["functions"] from position f.
QchemFunctions(functions, f) ==
  IF f > Len(functions) THEN Ok(<<>>)
  ELSE IF Len(functions[f].coefficients) # Len(functions[f].exponents)
  THEN Raise("ValueError")
  ELSE IF ~InRange(NUMBER_TO_AM, functions[f].angular_momentum) THEN Raise("IndexError")
  ELSE LET rest == QchemFunctions(functions, f + 1)
       IN  IF rest.err # "none" THEN rest
           ELSE Ok(<<<<W(PyGet(NUMBER_TO_AM, functions[f].angular_momentum)),
                       I(Len(functions[f].coefficients)), F(Unit)>>>>
                   \o [i \in 1..Len(functions[f].coefficients) |->
                         <<FmtExp(functions[f].exponents[i]),
                           FmtG(functions[f].coefficients[i], 8)>>]
                   \o rest.val)

RECURSIVE QchemAtoms(_, _, _)
\* qchem.dumps: the loop over data from position a, "****" between atoms.
QchemAtoms(data, a, lines) ==
  IF a > Len(data) THEN Ok(lines)
  ELSE IF ~InRange(ElemList, data[a].atnum) THEN Raise("IndexError")
  ELSE IF "functions" \notin DOMAIN data[a] THEN Raise("KeyError")
  ELSE LET fs == QchemFunctions(data[a].functions, 1)
       IN  IF fs.err # "none" THEN fs
           ELSE QchemAtoms(data, a + 1,
                  lines \o (IF a = 1 THEN <<>> ELSE <<<<MARKER>>>>)
                        \o <<<<W(PyGet(ElemList, data[a].atnum)), I(0)>>>> \o fs.val)

\* A variant of qchem.dumps that writes a line when it meets ECP data; the
\* properties on the independence of the output from ECP data tell the two
\* apart.
DumpsQchemEcpLine(data) ==
  LET r == QchemAtoms(data, 1, <<<<W("$basis")>>>>)
  IN  IF r.err # "none" THEN [err |-> r.err, val |-> <<>>, warned |-> FALSE]
      ELSE [err |-> "none",
            val |-> r.val \o (IF AnyEcp(data) THEN <<<<W("$ecp")>>>> ELSE <<>>)
                          \o <<<<W("$end")>>>>,
            warned |-> AnyEcp(data)]

\* qchem.dumps: "$basis", the atoms, "$end"; no final newline.
DumpsQchem(data) ==
  LET r == QchemAtoms(data, 1, <<<<W("$basis")>>>>)
  IN  IF r.err # "none" THEN [err |-> r.err, val |-> <<>>, warned |-> FALSE]
      ELSE [err |-> "none", val |-> r.val \o <<<<W("$end")>>>>, warned |-> AnyEcp(data)]

RECURSIVE TurbomoleFunctions(_, _)
\* turbomole.dumps: the loop over atom["functions"] from position f.
TurbomoleFunctions(functions, f) ==
  IF f > Len(functions) THEN Ok(<<>>)
  ELSE IF Len(functions[f].coefficients) # Len(functions[f].exponents)
  THEN Raise("ValueError")
  ELSE IF ~InRange(NUMBER_TO_AM, functions[f].angular_momentum) THEN Raise("IndexError")
  ELSE LET rest == TurbomoleFunctions(functions, f + 1)
       IN  IF rest.err # "none" THEN rest
           ELSE Ok(<<<<I(Len(functions[f].coefficients)),
                       W(Lower(PyGet(NUMBER_TO_AM, functions[f].angular_momentum)))>>>>
                   \o [i \in 1..Len(functions[f].coefficients) |->
                         <<FmtExp(functions[f].exponents[i]),
                           FmtG(functions[f].coefficients[i], 8)>>]
                   \o rest.val)

RECURSIVE TurbomoleAtoms(_, _, _, _)
\* turbomole.dumps: the loop over data from position a; "{} {}".format
\* prints the name, the word None for None.
TurbomoleAtoms(data, name, a, lines) ==
  IF a > Len(data) THEN Ok(lines)
  ELSE IF ~InRange(ElemList, data[a].atnum) THEN Raise("IndexError")
  ELSE IF "functions" \notin DOMAIN data[a] THEN Raise("KeyError")
  ELSE LET fs == TurbomoleFunctions(data[a].functions, 1)
       IN  IF fs.err # "none" THEN fs
           ELSE TurbomoleAtoms(data, name, a + 1,
                  lines \o <<<<W("*")>>,
                             <<W(Lower(PyGet(ElemList, data[a].atnum))), W(name.val)>>,
                             <<W("*")>>>>
                        \o fs.val)

\* turbomole.dumps: "$basis", the atoms, "*", "$end"; no final newline.
DumpsTurbomole(data, kwargs) ==
  LET r == TurbomoleAtoms(data, KwGet(kwargs, "name", PyStr("look4bas")), 1, <<<<W("$basis")>>>>)
  IN  IF r.err # "none" THEN [err |-> r.err, val |-> <<>>, warned |-> FALSE]
      ELSE [err |-> "none", val |-> r.val \o <<<<W("*")>>, <<W("$end")>>>>,
            warned |-> AnyEcp(data)]

RECURSIVE Sorted(_)
\* sorted(set(...)): the elements of a set of numbers in ascending order.
Sorted(S) ==
  IF S = {} THEN <<>>
  ELSE LET m == CHOOSE x \in S : \A y \in S : x <= y
       IN  <<m>> \o Sorted(S \ {m})

\* sorted(..., reverse=True)
SortedReverse(S) == [k \in 1..Cardinality(S) |-> Sorted(S)[Cardinality(S) + 1 - k]]

\* cfour.dumps: ams, and for an angular momentum am the contractions that
\* have it (the columns of its matrix), map_ncontr[am] and map_exps[am].
CfourAms(functions) ==
  Sorted({functions[f].angular_momentum : f \in 1..Len(functions)})
CfourColumns(functions, am) ==
  SelectSeq(functions, LAMBDA fun : fun.angular_momentum = am)
CfourNcontr(functions, am) == Len(CfourColumns(functions, am))
\* A variant of map_exps[am] in ascending order; the properties on the order
\* of the listed exponents tell the two apart.
CfourExpsAscending(functions, am) ==
  Sorted(UNION {{functions[f].exponents[i] : i \in 1..Len(functions[f].exponents)} :
                  f \in {g \in 1..Len(functions) : functions[g].angular_momentum = am}})
CfourExps(functions, am) ==
  SortedReverse(UNION {{functions[f].exponents[i] : i \in 1..Len(functions[f].exponents)} :
                         f \in {g \in 1..Len(functions) : functions[g].angular_momentum = am}})

\* cfour.dumps: the exponents of one angular momentum, five to a line, after
\* the (empty) line buffer appended before the first of them.
CfourExpLines(exps) ==
  IF exps = <<>> THEN <<>>
  ELSE <<<<>>>>
       \o [k \in 1..((Len(exps) + 4) \div 5) |->
             [j \in 1..(IF 5 * k <= Len(exps) THEN 5 ELSE Len(exps) - 5 * (k - 1)) |->
                FmtExp(exps[5 * (k - 1) + j])]]

\* cfour.dumps: fun["coefficients"][fun["exponents"].index(exp)], or 0.0 when
\* exp is not among the exponents of fun; CfourCoeffOk is its IndexError test.
CfourCoeffOk(fun, exp) == Index(fun.exponents, exp) < Len(fun.coefficients)
CfourCoeff(fun, exp) ==
  IF Index(fun.exponents, exp) >= 0 THEN fun.coefficients[Index(fun.exponents, exp) + 1]
  ELSE 0

\* cfour.dumps: the coefficient matrix of one angular momentum, a row for
\* each exponent and a column for each contraction.
CfourMatrix(cols, exps) ==
  IF \E e \in 1..Len(exps) : \E c \in 1..Len(cols) : ~CfourCoeffOk(cols[c], exps[e])
  THEN Raise("IndexError")
  ELSE Ok([e \in 1..Len(exps) |->
             [c \in 1..Len(cols) |-> FmtExp(CfourCoeff(cols[c], exps[e]))]])

RECURSIVE CfourAmLoop(_, _, _)
\* cfour.dumps: the loop "for am in ams" from position k.
CfourAmLoop(functions, ams, k) ==
  IF k > Len(ams) THEN Ok(<<>>)
  ELSE LET m == CfourMatrix(CfourColumns(functions, ams[k]), CfourExps(functions, ams[k]))
       IN  IF m.err # "none" THEN m
           ELSE LET rest == CfourAmLoop(functions, ams, k + 1)
                IN  IF rest.err # "none" THEN rest
                    ELSE Ok(CfourExpLines(CfourExps(functions, ams[k])) \o m.val \o rest.val)

\* cfour.dumps: the header lines of one atom.
CfourHeader(elem, functions, name, description) ==
  LET ams == CfourAms(functions)
  IN  << <<W(Upper(elem) \o ":" \o Upper(name.val))>>,
         description.val,
         <<>>,
         <<I(Len(ams))>>,
         [k \in 1..Len(ams) |-> I(ams[k])],
         [k \in 1..Len(ams) |-> I(CfourNcontr(functions, ams[k]))],
         [k \in 1..Len(ams) |-> I(Len(CfourExps(functions, ams[k])))] >>

RECURSIVE CfourAtoms(_, _, _, _, _)
\* cfour.dumps: the loop over data from position a; name.upper() is an
\* AttributeError when name is None.
CfourAtoms(data, name, description, a, lines) ==
  IF a > Len(data) THEN Ok(lines)
  ELSE IF ~InRange(ElemList, data[a].atnum) THEN Raise("IndexError")
  ELSE IF "functions" \notin DOMAIN data[a] THEN Raise("KeyError")
  ELSE IF IsNone(name) THEN Raise("AttributeError")
  ELSE LET body == CfourAmLoop(data[a].functions, CfourAms(data[a].functions), 1)
       IN  IF body.err # "none" THEN body
           ELSE CfourAtoms(data, name, description, a + 1,
                  lines \o CfourHeader(PyGet(ElemList, data[a].atnum), data[a].functions,
                                       name, description)
                        \o body.val \o <<<<>>>>)

\* cfour.dumps: the atoms and a final newline; nothing looks at the lengths
\* of a contraction's sequences or at ECP data.  "\n".join(lines) is a
\* TypeError when a line is the description None.
DumpsCfour(data, kwargs) ==
  LET description == KwGet(kwargs, "description",
                           PyStr(<<W("Created"), W("by"), W("look4bas"), W("version"),
                                   W(VERSION)>>))
      r == CfourAtoms(data, KwGet(kwargs, "name", PyStr("look4bas")), description, 1, <<>>)
  IN  IF r.err # "none" THEN [err |-> r.err, val |-> <<>>, warned |-> FALSE]
      ELSE IF IsNone(description) /\ data # <<>>
      THEN [err |-> "TypeError", val |-> <<>>, warned |-> FALSE]
      ELSE [err |-> "none", val |-> r.val \o <<<<>>>>, warned |-> FALSE]

\* pyscf.dumps: nwchem.dumps(data, elem_list), its keyword arguments dropped.
DumpsPyscf(data) == DumpsNwchem(data)

\* basis_format.dumps: dumps[format](data, name=name, description=description),
\* or NotImplementedError for a format that is no key of the table.  (The
\* key "gaussian94" of the table is not among the formats of the calls
\* below.)
BasisFormatDumps(format, data, name, description) ==
  LET kwargs == [name |-> name, description |-> description]
  IN  CASE format = "cfour" -> DumpsCfour(data, kwargs)
        [] format = "nwchem" -> DumpsNwchem(data)
        [] format = "orca" -> DumpsOrca(data)
        [] format = "qchem" -> DumpsQchem(data)
        [] format = "turbomole" -> DumpsTurbomole(data, kwargs)
        [] format = "pyscf" -> DumpsPyscf(data)
        [] OTHER -> [err |-> "NotImplementedError", val |-> <<>>, warned |-> FALSE]

----------------------------------------------------------------------------
(* Inputs: the texts and documents the calls are applied to. *)

MaxShells == 2
MaxBlocks == 2
MaxEcp == 2
MaxFuncs == 2
MaxAtoms == 2
MaxSteps == 4

SeqsUpTo(S, n) == UNION {[1..k -> S] : k \in 0..n}

RECURSIVE Concat(_)
Concat(ss) == IF ss = <<>> THEN <<>> ELSE Head(ss) \o Concat(Tail(ss))

\* Data lines: exponent and coefficient; exponent, s- and p-coefficient.
LineA == <<F(150000000), F(25000000)>>
LineB == <<F(50000000), X("E", -75000000)>>
LineD == <<X("D", 150000000), X("d", 25000000)>>
LineA3 == <<F(150000000), F(25000000), F(10000000)>>
LineB3 == <<F(50000000), F(-75000000), I(2)>>

Header(am, n) == <<W(am), I(n), F(Unit)>>

\* Shells as their lines: well-formed ones and malformed ones.
GoodShells ==
  { <<Header("S", 2), LineA, LineB>>,
    <<Header("P", 1), LineB>>,
    <<Header("SP", 2), LineA3, LineB3>>,
    <<Header("sp", 1), LineB3>>,
    <<Header("D", 0)>>,
    <<Header("s", 1), LineD>> }

OddShells ==
  { <<Header("S", 2), LineA>>,
    <<Header("S", 1), LineA, LineB>>,
    <<Header("Q", 1), LineA>>,
    <<<<W("S"), W("x"), F(Unit)>>, LineA>>,
    <<Header("S", 1), <<F(150000000)>>>>,
    <<Header("S", 1), <<F(150000000), W("foo")>>>>,
    <<Header("SP", 1), LineA>>,
    <<Header("S", -1), LineA>>,
    <<<<W("S"), I(1)>>, LineA>> }

ElemLine(sym) == <<W(sym), I(0)>>

\* Element blocks as their lines.
PlainBlocks ==
  { <<ElemLine("H"), Header("S", 1), LineA>>,
    <<ElemLine("He"), Header("P", 1), LineB>>,
    <<ElemLine("li"), Header("SP", 1), LineA3>> }

OddBlocks ==
  { <<>>,
    <<ElemLine("Zz"), Header("S", 1), LineA>>,
    <<<<W("H")>>, Header("S", 1), LineA>>,
    <<<<W("!"), W("note")>>, ElemLine("H"), <<>>, Header("P", 1), LineB>> }

EcpComp(p, e, c) == <<I(p), F(e), F(c)>>

\* ECP records as their lines, and lines that are no ECP record.
GoodEcps ==
  { <<ElemLine("H"), <<W("H-ECP"), I(0), I(2)>>,
      <<W("s-ul"), W("potential")>>, <<I(1)>>, EcpComp(2, 100000000, 200000000)>>,
    <<ElemLine("h"), <<W("H2-ECP"), I(0), I(1)>>,
      <<W("s-ul")>>, <<I(0)>>>>,
    <<ElemLine("He"), <<W("HE-ECP"), I(1), I(2)>>,
      <<W("p-ul")>>, <<I(2)>>, EcpComp(1, 150000000, 25000000), EcpComp(2, 50000000, -75000000),
      <<W("s-p")>>, <<I(1)>>, <<I(0), X("D", 150000000), X("E", 25000000)>>>>,
    <<ElemLine("Li"), <<W("LI-ECP"), I(0), I(2)>>,
      <<W("s-ul")>>, <<I(1)>>, EcpComp(2, 100000000, 200000000)>>,
    <<ElemLine("Be"), <<W("BE-ECP"), I(0), I(2)>>,
      <<W("s-ul")>>, <<I(1)>>, EcpComp(2, 50000000, 25000000)>> }

OddEcps ==
  { << <<W("junk")>> >>,
    <<<<W("H"), I(1)>>, <<W("H-ECP"), I(0), I(2)>>,
      <<W("s-ul")>>, <<I(1)>>, EcpComp(2, 100000000, 200000000)>>,
    <<ElemLine("H"), <<W("H-ECP"), I(0), I(2)>>,
      <<W("s-ul")>>, <<W("x")>>, EcpComp(2, 100000000, 200000000)>>,
    <<ElemLine("H"), <<W("H-ECP"), I(1), I(2)>>,
      <<W("s-ul")>>, <<I(1)>>, EcpComp(2, 100000000, 200000000)>> }

\* ECP records that declare a negative max_angular_momentum or a negative
\* count of components.
NegativeEcps ==
  { <<ElemLine("He"), <<W("HE-ECP"), I(-2), I(2)>>>>,
    <<ElemLine("H"), <<W("H-ECP"), I(1), I(2)>>,
      <<W("s-ul")>>, <<I(-1)>>, <<I(1)>>, EcpComp(2, 100000000, 200000000)>> }

\* "****", block, "****", block, ..., "****", final.
TextOf(blocks, final) ==
  Concat([i \in 1..Len(blocks) |-> <<<<MARKER>>>> \o blocks[i]]) \o <<<<MARKER>>>> \o final

HBlock == <<ElemLine("H"), Header("S", 1), LineA>>
HeBlock == <<ElemLine("He"), Header("P", 1), LineB>>
LiBlock == <<ElemLine("li"), Header("SP", 1), LineA3>>

\* One block of arbitrary shells, alone, before or after a plain block.
ShellTexts ==
  LET blocks == {<<ElemLine("H")>> \o Concat(ss) :
                   ss \in SeqsUpTo(GoodShells \cup OddShells, MaxShells)}
  IN  {TextOf(<<b>>, <<>>) : b \in blocks}
      \cup {TextOf(<<b, HeBlock>>, <<>>) : b \in blocks}
      \cup {TextOf(<<HeBlock, b>>, <<>>) : b \in blocks}

\* Arbitrary blocks in arbitrary order, with a few endings.
BlockTexts ==
  {TextOf(bs, final) :
     bs \in SeqsUpTo(PlainBlocks \cup OddBlocks, MaxBlocks),
     final \in {<<>>, <<<<>>>>, <<<<W("junk")>>>>}}

\* Arbitrary ECP sections after a few cGTO sections.
EcpTexts ==
  {TextOf(bs, Concat(es)) :
     bs \in {<<HBlock>>, <<HeBlock, HBlock>>, <<LiBlock, HBlock, HeBlock>>},
     es \in SeqsUpTo(GoodEcps \cup OddEcps, MaxEcp)}
  \cup {TextOf(bs, Concat(<<e, n>>)) :
          bs \in {<<HBlock>>, <<HeBlock, HBlock>>},
          e \in GoodEcps, n \in NegativeEcps}

\* Texts with no marker, or with lines before the first marker.
HeadTexts ==
  { <<>>,
    HBlock,
    <<<<W("junk")>>>> \o TextOf(<<HBlock>>, <<>>),
    <<<<W("!"), W("pc-2")>>, <<>>>> \o TextOf(<<HBlock>>, <<>>),
    <<<<W("H"), MARKER>>, <<>>>>,
    <<<<>>, <<W("!"), W("a"), MARKER, W("b")>>>> \o TextOf(<<HBlock>>, <<>>) }

TextInputs == ShellTexts \cup BlockTexts \cup EcpTexts \cup HeadTexts

\* Contractions of a document.
GoodFuncs ==
  { Contraction(0, <<25000000, -75000000>>, <<150000000, 50000000>>),
    Contraction(1, <<1234567891>>, <<123456789>>),
    Contraction(2, <<>>, <<>>),
    Contraction(12, <<4>>, <<4>>),
    Contraction(0, <<10000000, 20000000, -30000000, 40000000, 50000000, 60000000>>,
                <<200000000, 600000000, 100000000, 500000000, 300000000, 700000000>>) }

OddFuncs ==
  { Contraction(0, <<25000000, 50000000>>, <<150000000>>),
    Contraction(1, <<25000000>>, <<150000000, 50000000>>),
    Contraction(13, <<25000000>>, <<150000000>>) }

AnEcp ==
  [name |-> W("H-ECP"), max_angular_momentum |-> 0, n_electrons_removed |-> 2,
   radial_parts |-> <<[title |-> <<W("s-ul")>>, polynomial_powers |-> <<2>>,
                       gaussian_exponents |-> <<100000000>>,
                       coefficients |-> <<200000000>>]>>]

Atom(atnum, functions) == [atnum |-> atnum, functions |-> functions]

PlainAtoms ==
  { Atom(1, <<Contraction(0, <<25000000>>, <<150000000>>)>>),
    Atom(2, <<Contraction(1, <<-75000000>>, <<50000000>>)>>),
    Atom(3, <<>>) }

OddAtoms ==
  { [atnum |-> 1, functions |-> <<Contraction(0, <<25000000>>, <<150000000>>)>>, ecp |-> AnEcp],
    [atnum |-> 4, ecp |-> AnEcp],
    Atom(5, <<>>) }

\* One atom of arbitrary contractions, alone or before a plain atom.
FuncDocs ==
  LET atoms == {Atom(1, fs) : fs \in SeqsUpTo(GoodFuncs \cup OddFuncs, MaxFuncs)}
  IN  {<<a>> : a \in atoms}
      \cup {<<a, Atom(2, <<Contraction(1, <<-75000000>>, <<50000000>>)>>)>> : a \in atoms}

\* Arbitrary atoms in arbitrary order.
AtomDocs == SeqsUpTo(PlainAtoms \cup OddAtoms, MaxAtoms)

DocInputs == FuncDocs \cup AtomDocs

\* The keyword arguments a dumper is called with: none, or a name.
KwInputs == {EmptyDict, [name |-> PyStr("pc-2")]}

\* Documents with a contraction in which an exponent occurs twice.
RepeatFuncs ==
  { Contraction(0, <<25000000, 50000000>>, <<150000000, 150000000>>),
    Contraction(1, <<25000000, 50000000, -75000000>>, <<50000000, 150000000, 50000000>>) }
RepeatDocs ==
  {<<Atom(1, <<f>> \o fs)>> : f \in RepeatFuncs, fs \in SeqsUpTo(GoodFuncs, MaxFuncs - 1)}

\* The arguments basis_format.dumps is called with: the keys of its table
\* that name another format and a format that is no key; a name or None (the
\* default); a description or None (the default).
FormatInputs == {"cfour", "nwchem", "orca", "qchem", "turbomole", "pyscf", "molpro"}
NameInputs == {None, PyStr("pc-2")}
DescriptionInputs == {None, PyStr(<<W("polarization"), W("consistent")>>)}

----------------------------------------------------------------------------
(* The state machine: a text or a document is given, and loads and dumps   *)
(* are applied in turn, each to the result of the call before.             *)
(*   texts   the texts so far (given or dumped), in order                  *)
(*   docs    the documents so far (given or loaded), in order              *)
(*   ops     the calls made so far                                         *)
(*   err     "none", or the exception that ended the last call             *)
(*   warned  whether the last dumper called emitted the ECP warning        *)
(*   out     the lines returned by a dumper of another format              *)
(*   opts    the keyword arguments that dumper was called with             *)
(* The dumpers of the other formats are applied to the document given or   *)
(* loaded last; nothing reads their output back.                           *)

Init ==
  /\ ops = <<>>
  /\ err = "none"
  /\ warned = FALSE
  /\ out = <<>>
  /\ opts = EmptyDict
  /\ \/ texts \in {<<t>> : t \in TextInputs} /\ docs = <<>>
     \/ docs \in {<<d>> : d \in DocInputs} /\ texts = <<>>

\* What the next call applies to: the value given or returned last.
HasText == IF ops = <<>> THEN texts # <<>> ELSE ops[Len(ops)] = "dumps"
HasDoc == IF ops = <<>> THEN docs # <<>> ELSE ops[Len(ops)] = "loads"
CurText == texts[Len(texts)]
CurDoc == docs[Len(docs)]

Loads ==
  /\ err = "none" /\ HasText /\ Len(ops) < MaxSteps
  /\ \E r \in LoadsResults(CurText) :
       /\ err' = r.err
       /\ docs' = IF r.err = "none" THEN Append(docs, r.val) ELSE docs
  /\ ops' = Append(ops, "loads")
  /\ UNCHANGED <<texts, warned, out, opts>>

Dumps ==
  /\ err = "none" /\ HasDoc /\ Len(ops) < MaxSteps
  /\ \E r \in {DumpsG94(CurDoc)} :
       /\ err' = r.err
       /\ warned' = r.warned
       /\ texts' = IF r.err = "none" THEN Append(texts, r.val) ELSE texts
  /\ ops' = Append(ops, "dumps")
  /\ UNCHANGED <<docs, out, opts>>

\* A variant of such a call that takes the entries out of its document as
\* it prints them (data.pop(0) in place of the loop over data); the
\* properties on the arguments of a call tell the two apart.
SiblingInPlace(format, kwargs, r) ==
  /\ err' = r.err
  /\ warned' = r.warned
  /\ out' = r.val
  /\ opts' = kwargs
  /\ ops' = Append(ops, format)
  /\ docs' = [docs EXCEPT ![Len(docs)] = <<>>]
  /\ UNCHANGED texts

\* A call of the dumper of another format: r is what it returns or raises.
Sibling(format, kwargs, r) ==
  /\ err' = r.err
  /\ warned' = r.warned
  /\ out' = r.val
  /\ opts' = kwargs
  /\ ops' = Append(ops, format)
  /\ UNCHANGED <<texts, docs>>

Cfour ==
  /\ err = "none" /\ HasDoc /\ Len(ops) < MaxSteps
  /\ \E kwargs \in KwInputs : \E r \in {DumpsCfour(CurDoc, kwargs)} : Sibling("cfour", kwargs, r)

Nwchem ==
  /\ err = "none" /\ HasDoc /\ Len(ops) < MaxSteps
  /\ \E r \in {DumpsNwchem(CurDoc)} : Sibling("nwchem", EmptyDict, r)

Orca ==
  /\ err = "none" /\ HasDoc /\ Len(ops) < MaxSteps
  /\ \E r \in {DumpsOrca(CurDoc)} : Sibling("orca", EmptyDict, r)

Qchem ==
  /\ err = "none" /\ HasDoc /\ Len(ops) < MaxSteps
  /\ \E r \in {DumpsQchem(CurDoc)} : Sibling("qchem", EmptyDict, r)

Turbomole ==
  /\ err = "none" /\ HasDoc /\ Len(ops) < MaxSteps
  /\ \E kwargs \in KwInputs : \E r \in {DumpsTurbomole(CurDoc, kwargs)} :
       Sibling("turbomole", kwargs, r)

Next == Loads \/ Dumps \/ Cfour \/ Nwchem \/ Orca \/ Qchem \/ Turbomole

Spec == Init /\ [][Next]_vars

\* The calls of basis_format.dumps on a given document, one after another:
\* ops holds the call made last, opts its arguments, err, warned and out
\* how it ended.
InitDispatch ==
  /\ ops = <<>>
  /\ err = "none"
  /\ warned = FALSE
  /\ out = <<>>
  /\ opts = EmptyDict
  /\ texts = <<>>
  /\ docs \in {<<d>> : d \in DocInputs \cup RepeatDocs}

Dispatch ==
  \E format \in FormatInputs : \E name \in NameInputs : \E description \in DescriptionInputs :
    \E r \in {BasisFormatDumps(format, CurDoc, name, description)} :
      /\ err' = r.err
      /\ warned' = r.warned
      /\ out' = r.val
      /\ opts' = [format |-> format, name |-> name, description |-> description]
      /\ ops' = <<"basis_format.dumps">>
      /\ UNCHANGED <<texts, docs>>

SpecDispatch == InitDispatch /\ [][Dispatch]_vars

----------------------------------------------------------------------------
(* The calls of a behaviour so far, and what a text says read by the       *)
(* grammar: the terms the properties below are stated in.                  *)

\* Whether the behaviour began with a text (else with a document).
FromText == IF ops = <<>> THEN texts # <<>> ELSE ops[1] = "loads"

\* The pairs <<t, d>> with d returned by a call loads(t), and the pairs
\* <<d, t>> with t returned by a call dumps(d).
Loaded ==
  IF FromText THEN {<<texts[k], docs[k]>> : k \in 1..Len(docs)}
  ELSE {<<texts[k], docs[k + 1]>> : k \in 1..(Len(docs) - 1)}
Dumped ==
  IF FromText THEN {<<docs[k], texts[k + 1]>> : k \in 1..(Len(texts) - 1)}
  ELSE {<<docs[k], texts[k]>> : k \in 1..Len(texts)}

\* The pair <<t, d>> of the last call, when it was a call loads(t) that
\* returned d: every pair of Loaded is this pair in the state the call ends in.
Returned ==
  IF ops # <<>> /\ ops[Len(ops)] = "loads" /\ err = "none"
  THEN {<<CurText, CurDoc>>} ELSE {}

\* Whether the last call was loads(t), and whether it raised e.
LastLoads(t) == ops # <<>> /\ ops[Len(ops)] = "loads" /\ t = CurText
Raised(e) == err = e

\* The element blocks of a text (what stands between two consecutive
\* markers) and what follows the last marker, comment and empty lines removed.
RefBlocks(t) ==
  LET bs == SplitBlocks(t)
  IN  [b \in 1..(Len(bs) - 2) |-> StripComments(bs[b + 1])]
RefTrailing(t) == StripComments(SplitBlocks(t)[Len(SplitBlocks(t))])

\* The atomic number an element symbol stands for, whatever its case.
RefKnown(tok) ==
  tok.k = "w" /\ \E n \in 1..Len(ElemList) : Lower(ElemList[n]) = Lower(tok.s)
RefAtnum(tok) ==
  (CHOOSE n \in 1..Len(ElemList) : Lower(ElemList[n]) = Lower(tok.s)) - 1

\* The value of a numeric token (-1 for a word, which no value of the
\* inputs equals); d and D mark an exponent as e and E do.
RefNumeric(tok) == tok.k \in {"i", "f", "x"}
RefValue(tok) ==
  IF tok.k = "i" THEN tok.v * Unit ELSE IF tok.k \in {"f", "x"} THEN tok.v ELSE -1

\* In a block, a shell is a header line (a line that begins with a word)
\* with the data lines (lines that begin with a number) that follow it.
RefIsHeader(line) == line[1].k = "w"
RefHeaders(block) == {i \in 2..Len(block) : RefIsHeader(block[i])}
RefData(block, h) ==
  LET later == {i \in RefHeaders(block) : i > h}
      nxt == IF later = {} THEN Len(block) + 1
             ELSE CHOOSE i \in later : \A j \in later : i <= j
  IN  SubSeq(block, h + 1, nxt - 1)
RefIsSP(line) == Upper(line[1].s) = "SP"
RefAm(line) == Index(NUMBER_TO_AM, Upper(line[1].s))

\* Column c of data lines (a missing field reads as a word).
RefColumn(data, c) ==
  [k \in 1..Len(data) |-> IF c <= Len(data[k]) THEN RefValue(data[k][c]) ELSE -1]

\* The contractions the shell with header line h stands for.
RefShell(block, h) ==
  LET data == RefData(block, h)
      con(am, c) == [angular_momentum |-> am, exponents |-> RefColumn(data, 1),
                     coefficients |-> RefColumn(data, c)]
  IN  IF RefIsSP(block[h]) THEN <<con(0, 2), con(1, 3)>>
      ELSE <<con(RefAm(block[h]), 2)>>

RECURSIVE RefFunctions(_, _)
\* The contractions of the shells of a block from line i on, in line order.
RefFunctions(block, i) ==
  IF i > Len(block) THEN <<>>
  ELSE IF i \in RefHeaders(block)
  THEN RefShell(block, i) \o RefFunctions(block, i + 1)
  ELSE RefFunctions(block, i + 1)

\* Entry e is the AtomBasis of a block.
IsBasisOf(e, block) ==
  /\ e.atnum = RefAtnum(block[1][1])
  /\ "functions" \in DOMAIN e
  /\ e.functions = RefFunctions(block, 2)

----------------------------------------------------------------------------
(* Properties *)

\* C3: for each element block of a text, the document loads returns has an
\* AtomBasis with the atomic number of the block's symbol whose functions are
\* the block's shells in header order, each contraction with the exponents
\* (first column) and coefficients (second column) of its data lines.
C3_EachBlockHasItsBasis ==
  \A p \in Loaded :
    \A b \in 1..Len(RefBlocks(p[1])) :
      \E i \in 1..Len(p[2]) : IsBasisOf(p[2][i], RefBlocks(p[1])[b])

\* The same for the texts in which no two blocks name the same element.
DistinctElements(t) ==
  \A a, b \in 1..Len(RefBlocks(t)) :
    (a # b /\ RefBlocks(t)[a] # <<>> /\ RefBlocks(t)[b] # <<>>)
      => Lower(RefBlocks(t)[a][1][1].s) # Lower(RefBlocks(t)[b][1][1].s)
BlocksOfDistinctElementsHaveTheirBasis ==
  \A p \in Loaded :
    DistinctElements(p[1]) =>
      \A b \in 1..Len(RefBlocks(p[1])) :
        \E i \in 1..Len(p[2]) : IsBasisOf(p[2][i], RefBlocks(p[1])[b])

\* The block an entry with cGTO functions stems from: the last block of the
\* text that names its element.
NamedBy(blocks, n) ==
  {b \in 1..Len(blocks) :
     blocks[b] # <<>> /\ RefKnown(blocks[b][1][1]) /\ RefAtnum(blocks[b][1][1]) = n}
LastOf(blocks, named) == blocks[CHOOSE b \in named : \A c \in named : c <= b]
StemBlock(t, n) == LastOf(RefBlocks(t), NamedBy(RefBlocks(t), n))
HasBlock(t, n) == NamedBy(RefBlocks(t), n) # {}

\* The number of contractions the shells before line h of a block stand for.
RefPosition(block, h) ==
  Cardinality({i \in RefHeaders(block) : i < h})
    + Cardinality({i \in RefHeaders(block) : i < h /\ RefIsSP(block[i])})

\* The count n_contr a header line declares.
RefCount(line) == line[2].v

\* C4: each contraction loads parses from a shell whose header declares the
\* count n_contr holds exactly n_contr exponents and n_contr coefficients,
\* for every shell of every block, the last shell of a block included.
C4_ShellsHoldDeclaredCount ==
  \A p \in Loaded :
    \A i \in 1..Len(p[2]) :
      HasBlock(p[1], p[2][i].atnum) =>
        LET block == StemBlock(p[1], p[2][i].atnum)
            funs == p[2][i].functions
        IN  \A h \in RefHeaders(block) :
              \A k \in (RefPosition(block, h) + 1)..RefPosition(block, h + 1) :
                /\ k <= Len(funs)
                /\ Len(funs[k].exponents) = RefCount(block[h])
                /\ Len(funs[k].coefficients) = RefCount(block[h])

\* C5: a shell with header letter SP and n data lines of three fields is
\* parsed into exactly two consecutive contractions, of angular momentum 0
\* and 1, both with the n exponents in line order, the first with the
\* s-coefficient column and the second with the p-coefficient column
\* (stated of the block each entry of the returned document stems from).
C5_SPShellGivesTwoContractions ==
  \A p \in Returned :
    \A i \in 1..Len(p[2]) :
      HasBlock(p[1], p[2][i].atnum) =>
        LET block == StemBlock(p[1], p[2][i].atnum)
            funs == p[2][i].functions
        IN  /\ Len(funs) = RefPosition(block, Len(block) + 1)
            /\ \A h \in RefHeaders(block) :
                 RefIsSP(block[h]) =>
                   LET k == RefPosition(block, h)
                       data == RefData(block, h)
                   IN  /\ RefPosition(block, h + 1) = k + 2
                       /\ funs[k + 1] =
                            [angular_momentum |-> 0,
                             exponents |-> [j \in 1..Len(data) |-> RefValue(data[j][1])],
                             coefficients |-> [j \in 1..Len(data) |-> RefValue(data[j][2])]]
                       /\ funs[k + 2] =
                            [angular_momentum |-> 1,
                             exponents |-> [j \in 1..Len(data) |-> RefValue(data[j][1])],
                             coefficients |-> [j \in 1..Len(data) |-> RefValue(data[j][3])]]

\* A text with an SP shell of two data lines has been loaded.
C5_Witness ==
  \E p \in Returned :
    \E i \in 1..Len(p[2]) :
      /\ HasBlock(p[1], p[2][i].atnum)
      /\ \E h \in RefHeaders(StemBlock(p[1], p[2][i].atnum)) :
           /\ RefIsSP(StemBlock(p[1], p[2][i].atnum)[h])
           /\ Len(RefData(StemBlock(p[1], p[2][i].atnum), h)) = 2
           /\ Len(p[2][i].functions) >= 3

----------------------------------------------------------------------------
(* The ECP section read by the grammar *)

\* The ECP test on what follows the last marker: at least five lines, the
\* first of two fields with the second a 0, the second and the fifth of
\* three fields, and the first naming an element that has a cGTO block.
RefShape(lines) ==
  /\ Len(lines) >= 5
  /\ Len(lines[1]) = 2 /\ lines[1][2] = I(0)
  /\ Len(lines[2]) = 3 /\ Len(lines[5]) = 3
PassesEcpTest(t) ==
  /\ RefShape(RefTrailing(t))
  /\ RefKnown(RefTrailing(t)[1][1])
  /\ HasBlock(t, RefAtnum(RefTrailing(t)[1][1]))

RefIsComponent(line) ==
  Len(line) = 3 /\ line[1].k = "i" /\ RefNumeric(line[2]) /\ RefNumeric(line[3])

RECURSIVE RefRadial(_, _, _, _)
\* The radial parts am..max_am of a record, the first with its title in line
\* q: whether they are well-formed, the line after them, and the parts.
RefRadial(lines, q, am, max_am) ==
  IF am > max_am THEN [ok |-> TRUE, next |-> q, parts |-> <<>>]
  ELSE IF q + 1 > Len(lines) \/ Len(lines[q + 1]) # 1 \/ lines[q + 1][1].k # "i"
  THEN [ok |-> FALSE, next |-> q, parts |-> <<>>]
  ELSE LET n == lines[q + 1][1].v
           comps == SubSeq(lines, q + 2, q + 1 + n)
       IN  IF n < 0 \/ q + 1 + n > Len(lines)
              \/ \E c \in 1..n : ~RefIsComponent(lines[q + 1 + c])
           THEN [ok |-> FALSE, next |-> q, parts |-> <<>>]
           ELSE LET rest == RefRadial(lines, q + 2 + n, am + 1, max_am)
                IN  [ok |-> rest.ok, next |-> rest.next,
                     parts |-> <<[title |-> lines[q],
                                  polynomial_powers |-> [c \in 1..n |-> comps[c][1].v],
                                  gaussian_exponents |-> [c \in 1..n |-> RefValue(comps[c][2])],
                                  coefficients |-> [c \in 1..n |-> RefValue(comps[c][3])]]>>
                                \o rest.parts]

RECURSIVE RefEcps(_, _)
\* The records of an ECP section from line p on: whether they are
\* well-formed, and each record's atomic number and ecp data.
RefEcps(lines, p) ==
  IF p > Len(lines) THEN [ok |-> TRUE, recs |-> <<>>]
  ELSE IF \/ p + 1 > Len(lines)
          \/ Len(lines[p]) # 2 \/ ~RefKnown(lines[p][1]) \/ lines[p][2] # I(0)
          \/ Len(lines[p + 1]) # 3
          \/ lines[p + 1][2].k # "i" \/ lines[p + 1][3].k # "i"
          \/ lines[p + 1][2].v < 0
  THEN [ok |-> FALSE, recs |-> <<>>]
  ELSE LET r == RefRadial(lines, p + 2, 0, lines[p + 1][2].v)
           rest == RefEcps(lines, r.next)
       IN  IF ~r.ok THEN [ok |-> FALSE, recs |-> <<>>]
           ELSE [ok |-> rest.ok,
                 recs |-> <<[atnum |-> RefAtnum(lines[p][1]),
                             ecp |-> [name |-> lines[p + 1][1],
                                      max_angular_momentum |-> lines[p + 1][2].v,
                                      n_electrons_removed |-> lines[p + 1][3].v,
                                      radial_parts |-> r.parts]]>>
                           \o rest.recs]

\* The ECP records of a text that passes the ECP test with well-formed records.
HasEcps(t) == PassesEcpTest(t) /\ RefEcps(RefTrailing(t), 1).ok
EcpRecords(t) == RefEcps(RefTrailing(t), 1).recs

\* Entry e is the AtomBasis ECP record r is attached to, in a text t.
IsAttached(e, r, t) ==
  /\ e.atnum = r.atnum
  /\ "ecp" \in DOMAIN e /\ e.ecp = r.ecp
  /\ HasBlock(t, r.atnum) =>
       /\ "functions" \in DOMAIN e
       /\ e.functions = RefFunctions(StemBlock(t, r.atnum), 2)

\* C8: when what follows the last marker passes the ECP test and its records
\* are well-formed, each ECP record is attached to the AtomBasis with its
\* atomic number: the entry keeps the functions of its cGTO block and gains
\* the ecp record (name, max_angular_momentum, n_electrons_removed and the
\* radial parts in angular-momentum order).
C8_EachEcpRecordAttached ==
  \A p \in Loaded :
    HasEcps(p[1]) =>
      \A k \in 1..Len(EcpRecords(p[1])) :
        \E i \in 1..Len(p[2]) : IsAttached(p[2][i], EcpRecords(p[1])[k], p[1])

\* The same for the records that no later record of the same element follows.
LastEcpRecordsAttached ==
  \A p \in Loaded :
    HasEcps(p[1]) =>
      \A k \in 1..Len(EcpRecords(p[1])) :
        (\A l \in (k + 1)..Len(EcpRecords(p[1])) :
           EcpRecords(p[1])[l].atnum # EcpRecords(p[1])[k].atnum)
          => \E i \in 1..Len(p[2]) : IsAttached(p[2][i], EcpRecords(p[1])[k], p[1])

\* The elements of the cGTO blocks of a text in the order of their first
\* appearance, and the elements that only ECP records name.
RECURSIVE FirstAppearance(_, _, _)
FirstAppearance(blocks, b, seen) ==
  IF b > Len(blocks) THEN seen
  ELSE IF RefAtnum(blocks[b][1][1]) \in {seen[i] : i \in 1..Len(seen)}
  THEN FirstAppearance(blocks, b + 1, seen)
  ELSE FirstAppearance(blocks, b + 1, Append(seen, RefAtnum(blocks[b][1][1])))
EcpOnly(t) ==
  IF RefTrailing(t) = <<>> THEN {}
  ELSE {EcpRecords(t)[k].atnum : k \in 1..Len(EcpRecords(t))}
         \ {n \in 0..(Len(ElemList) - 1) : HasBlock(t, n)}

\* C6: the document loads returns lists the elements in the order in which
\* their blocks first appear in the cGTO section, followed by the elements
\* that appear only in the ECP section.
C6_FirstAppearanceOrder ==
  \A p \in Loaded :
    LET first == FirstAppearance(RefBlocks(p[1]), 1, <<>>)
    IN  /\ Len(p[2]) = Len(first) + Cardinality(EcpOnly(p[1]))
        /\ \A i \in 1..Len(first) : p[2][i].atnum = first[i]
        /\ \A i \in (Len(first) + 1)..Len(p[2]) : p[2][i].atnum \in EcpOnly(p[1])

\* C9: every entry of the document loads returns carries an atomic number
\* and a functions sequence; an element with an ECP record and no cGTO block
\* has an entry with an empty functions sequence and its ecp record.
C9_EveryEntryHasFunctions ==
  \A p \in Loaded :
    /\ \A i \in 1..Len(p[2]) :
         "atnum" \in DOMAIN p[2][i] /\ "functions" \in DOMAIN p[2][i]
    /\ \A n \in EcpOnly(p[1]) :
         \E i \in 1..Len(p[2]) :
           /\ p[2][i].atnum = n
           /\ "functions" \in DOMAIN p[2][i] /\ p[2][i].functions = <<>>
           /\ "ecp" \in DOMAIN p[2][i]

\* A text has a marker; non-comment content stands before its first marker.
HasMarker(t) == \E l \in 1..Len(t) : \E k \in 1..Len(t[l]) : t[l][k] = MARKER
ContentBeforeFirstMarker(t) == HasMarker(t) /\ StripComments(SplitBlocks(t)[1]) # <<>>

\* What follows the last marker is not empty and fails the ECP shape test or
\* names in its first line an element without cGTO block.
BadTrailing(t) ==
  /\ HasMarker(t)
  /\ RefTrailing(t) # <<>>
  /\ \/ ~RefShape(RefTrailing(t))
     \/ ~RefKnown(RefTrailing(t)[1][1])
     \/ ~HasBlock(t, RefAtnum(RefTrailing(t)[1][1]))

\* C7: loads raises a FormatError (ValueError in the code) and returns no
\* document when the text has no marker, when non-comment content precedes
\* the first marker, or when non-empty content after the last marker fails
\* the ECP shape test or names an element that has no cGTO block.
C7_MarkerErrors ==
  \A k \in 1..Len(texts) :
    (LastLoads(texts[k])
       /\ (~HasMarker(texts[k]) \/ ContentBeforeFirstMarker(texts[k]) \/ BadTrailing(texts[k])))
      => Raised("ValueError")

\* The same for the first two cases, and for the third when every element
\* block of the text is itself accepted.
BlocksAccepted(t) ==
  \A b \in 1..Len(RefBlocks(t)) :
    ParseElementBlock(RefBlocks(t)[b],
                      [i \in 1..Len(ElemList) |-> Lower(ElemList[i])]).err = "none"
MarkerErrorsOfAcceptedBlocks ==
  \A k \in 1..Len(texts) :
    (LastLoads(texts[k])
       /\ \/ ~HasMarker(texts[k])
          \/ ContentBeforeFirstMarker(texts[k])
          \/ BadTrailing(texts[k]) /\ BlocksAccepted(texts[k]))
      => Raised("ValueError")

\* The malformations of an element block: an unknown element symbol, an
\* unknown angular-momentum letter, a non-integer count, a data line with
\* the wrong number of fields, a non-numeric field.
BadShell(block, h) ==
  \/ ~RefIsSP(block[h]) /\ RefAm(block[h]) < 0
  \/ Len(block[h]) >= 2 /\ block[h][2].k # "i"
  \/ \E j \in 1..Len(RefData(block, h)) :
       \/ Len(RefData(block, h)[j]) # (IF RefIsSP(block[h]) THEN 3 ELSE 2)
       \/ \E c \in 1..Len(RefData(block, h)[j]) : ~RefNumeric(RefData(block, h)[j][c])
BadBlock(block) ==
  /\ block # <<>>
  /\ \/ ~RefKnown(block[1][1])
     \/ \E h \in RefHeaders(block) : BadShell(block, h)

\* C10: loads raises a FormatError (ValueError in the code) and returns no
\* document whenever an element block, at any position of the text, has an
\* unknown symbol, an unknown angular-momentum letter, a non-integer count,
\* a data line with the wrong number of fields or a non-numeric field.
C10_MalformedBlockRaises ==
  \A k \in 1..Len(texts) :
    (LastLoads(texts[k])
       /\ HasMarker(texts[k]) /\ ~ContentBeforeFirstMarker(texts[k])
       /\ \E b \in 1..Len(RefBlocks(texts[k])) : BadBlock(RefBlocks(texts[k])[b]))
      => Raised("ValueError")

\* The same when the loop over the lines of each block ends and no block is
\* empty: then no document is returned either.
MalformedBlockEndsLoads ==
  \A k \in 1..Len(texts) :
    (LastLoads(texts[k])
       /\ HasMarker(texts[k]) /\ ~ContentBeforeFirstMarker(texts[k])
       /\ \E b \in 1..Len(RefBlocks(texts[k])) : BadBlock(RefBlocks(texts[k])[b]))
      => err \in {"ValueError", "IndexError", "Diverge"}

\* A document without ECP data whose atomic numbers and angular momenta are
\* in their tables and whose contractions have as many exponents as
\* coefficients.
RefPlainDoc(d) ==
  \A i \in 1..Len(d) :
    /\ DOMAIN d[i] = {"atnum", "functions"}
    /\ d[i].atnum \in 0..(Len(ElemList) - 1)
    /\ \A f \in 1..Len(d[i].functions) :
         /\ d[i].functions[f].angular_momentum \in 0..(Len(NUMBER_TO_AM) - 1)
         /\ Len(d[i].functions[f].exponents) = Len(d[i].functions[f].coefficients)

\* A document with its values at the printed precision: ExpDecimals
\* decimals for an exponent, CoefDigits significant digits for a coefficient.
RefPrintedCoef(u) ==
  IF u = 0 \/ Digits(Abs(u)) <= CoefDigits THEN u
  ELSE RoundTo(u, 10^(Digits(Abs(u)) - CoefDigits))
RefPrinted(d) ==
  [i \in 1..Len(d) |->
     [atnum |-> d[i].atnum,
      functions |->
        [f \in 1..Len(d[i].functions) |->
           [angular_momentum |-> d[i].functions[f].angular_momentum,
            exponents |->
              [j \in 1..Len(d[i].functions[f].exponents) |->
                 RoundTo(d[i].functions[f].exponents[j], 10^(8 - ExpDecimals))],
            coefficients |->
              [j \in 1..Len(d[i].functions[f].coefficients) |->
                 RefPrintedCoef(d[i].functions[f].coefficients[j])]]]]]

\* C1: for every document d without ECP data whose contractions have
\* equal-length exponent and coefficient sequences, loads(dumps(d)) equals d:
\* the same entries in the same order, each with the same contractions in the
\* same order, the values compared at the printed precision.
C1_LoadsOfDumpsIsIdentity ==
  /\ \A k \in 1..(Len(docs) - 1) :
       RefPlainDoc(docs[k]) => docs[k + 1] = RefPrinted(docs[k])
  /\ (docs # <<>> /\ RefPlainDoc(CurDoc) /\ Len(ops) >= (IF FromText THEN 2 ELSE 1))
       => err = "none"

\* The same for the documents of at most one entry.
LoadsOfDumpsIsIdentityOnOneAtom ==
  /\ \A k \in 1..(Len(docs) - 1) :
       (RefPlainDoc(docs[k]) /\ Len(docs[k]) <= 1) => docs[k + 1] = RefPrinted(docs[k])
  /\ (docs # <<>> /\ RefPlainDoc(CurDoc) /\ Len(CurDoc) <= 1
        /\ Len(ops) >= (IF FromText THEN 2 ELSE 1))
       => err = "none"

\* A syntactically valid text without ECP section: a marker first, nothing
\* after the last marker, and in each block an element line `symbol 0` and
\* shells whose header `letter n_contr 1.00` has a known letter and a
\* positive count n_contr and is followed by exactly n_contr data lines of
\* two (for SP three) numeric fields.
RefValidShell(block, h) ==
  /\ Len(block[h]) = 3
  /\ RefIsSP(block[h]) \/ RefAm(block[h]) >= 0
  /\ block[h][2].k = "i" /\ block[h][2].v >= 1
  /\ Len(RefData(block, h)) = block[h][2].v
  /\ \A j \in 1..Len(RefData(block, h)) :
       /\ Len(RefData(block, h)[j]) = (IF RefIsSP(block[h]) THEN 3 ELSE 2)
       /\ \A c \in 1..Len(RefData(block, h)[j]) : RefNumeric(RefData(block, h)[j][c])
RefValidBlock(block) ==
  /\ Len(block) >= 2
  /\ Len(block[1]) = 2 /\ RefKnown(block[1][1]) /\ block[1][2] = I(0)
  /\ 2 \in RefHeaders(block)
  /\ \A h \in RefHeaders(block) : RefValidShell(block, h)
RefValidText(t) ==
  /\ HasMarker(t) /\ ~ContentBeforeFirstMarker(t)
  /\ RefTrailing(t) = <<>>
  /\ \A b \in 1..Len(RefBlocks(t)) : RefValidBlock(RefBlocks(t)[b])

\* C2: for every syntactically valid text t without ECP section,
\* dumps(loads(t)) equals dumps(loads(dumps(loads(t)))).
C2_OnePassIsNormalForm ==
  (FromText /\ RefValidText(texts[1])) =>
     /\ err = "none"
     /\ Len(texts) >= 3 => texts[2] = texts[3]

\* The same for the valid texts of at most one element block.
OnePassIsNormalFormOnOneBlock ==
  (FromText /\ RefValidText(texts[1]) /\ Len(RefBlocks(texts[1])) <= 1) =>
     /\ err = "none"
     /\ Len(texts) >= 3 => texts[2] = texts[3]

----------------------------------------------------------------------------
(* Errors of the ECP section *)

\* No line after the last marker declares a negative count: neither a
\* component count nor the max_angular_momentum of a record's second line.
RefNoNegativeCount(t) ==
  \A q \in 1..Len(RefTrailing(t)) :
    /\ Len(RefTrailing(t)[q]) = 1 /\ RefTrailing(t)[q][1].k = "i"
         => RefTrailing(t)[q][1].v >= 0
    /\ Len(RefTrailing(t)[q]) = 3 /\ RefTrailing(t)[q][2].k = "i" /\ RefTrailing(t)[q][1].k = "w"
         => RefTrailing(t)[q][2].v >= 0

\* A text whose element blocks are accepted and whose content after the last
\* marker passes the ECP test, but holds a record that is not well-formed:
\* the input ends early, a line has the wrong number of fields, or a field
\* that must be a number is none (the counts that are numbers are not
\* negative).
BadEcpSection(t) ==
  /\ HasMarker(t) /\ ~ContentBeforeFirstMarker(t)
  /\ BlocksAccepted(t)
  /\ PassesEcpTest(t)
  /\ RefNoNegativeCount(t)
  /\ ~RefEcps(RefTrailing(t), 1).ok

\* C11: within an ECP section, a premature end of input, a wrong field count
\* or a non-numeric field (the two integers of a record's second line, the
\* component count after a radial-part title, a power, exponent or
\* coefficient) makes loads raise a FormatError (ValueError in the code).
C11_EcpErrorsAreFormatErrors ==
  \A k \in 1..Len(texts) :
    (LastLoads(texts[k]) /\ BadEcpSection(texts[k])) => Raised("ValueError")

\* What the code does: such a section ends loads with an exception, which
\* is an UnboundLocalError when the component count of the first radial part
\* parsed is no integer.
EcpErrorsEndLoads ==
  \A k \in 1..Len(texts) :
    (LastLoads(texts[k]) /\ BadEcpSection(texts[k]))
      => err \in {"ValueError", "UnboundLocalError"}

----------------------------------------------------------------------------
(* The dumpers: errors and warnings *)

\* The dumper called last on document d: "dumps" for gaussian94.dumps.
Formats == {"dumps", "cfour", "nwchem", "orca", "qchem", "turbomole"}
LastDumper(format, d) ==
  ops # <<>> /\ ops[Len(ops)] = format /\ format \in Formats /\ d = CurDoc

\* The contractions of a document, as pairs of atom and position.
Functions(d) ==
  {<<a, f>> \in (1..Len(d)) \X (1..(MaxFuncs + 1)) :
     "functions" \in DOMAIN d[a] /\ f <= Len(d[a].functions)}

\* Some contraction has coefficient and exponent sequences of different
\* length.
Mismatch(d) ==
  \E p \in Functions(d) :
    Len(d[p[1]].functions[p[2]].coefficients) # Len(d[p[1]].functions[p[2]].exponents)

\* C12: every dumper raises an error and returns no string when a
\* contraction of the document has coefficient and exponent sequences of
\* different length, whichever of the two is longer.
C12_MismatchRaises ==
  \A format \in Formats :
    \A k \in 1..Len(docs) :
      (LastDumper(format, docs[k]) /\ Mismatch(docs[k])) => err # "none"

\* What the code does: every dumper but cfour raises.
MismatchRaisesOutsideCfour ==
  \A format \in Formats \ {"cfour"} :
    \A k \in 1..Len(docs) :
      (LastDumper(format, docs[k]) /\ Mismatch(docs[k])) => err # "none"

\* What the dumper of a format returns or raises for a document.
DumpOf(format, d, kwargs) ==
  CASE format = "dumps" -> DumpsG94(d)
    [] format = "cfour" -> DumpsCfour(d, kwargs)
    [] format = "nwchem" -> DumpsNwchem(d)
    [] format = "orca" -> DumpsOrca(d)
    [] format = "qchem" -> DumpsQchem(d)
    [] format = "turbomole" -> DumpsTurbomole(d, kwargs)

\* A document with every ecp record removed.
WithoutEcp(d) ==
  [a \in 1..Len(d) |-> [key \in DOMAIN d[a] \ {"ecp"} |-> d[a][key]]]

\* C13: each dumper emits the warning that ECP data is ignored when some
\* AtomBasis of the document carries ECP data and not when none does, and
\* returns its output in both cases: a document whose dump without the ECP
\* data is returned is dumped with it as well, with the warning exactly when
\* ECP data is there.
C13_EcpWarning ==
  \A format \in Formats :
    \A k \in 1..Len(docs) :
      (LastDumper(format, docs[k])
         /\ DumpOf(format, WithoutEcp(docs[k]), opts).err = "none")
        => (err = "none" /\ warned = AnyEcp(docs[k]))

\* What the code does: every dumper but cfour warns so.
EcpWarningOutsideCfour ==
  \A format \in Formats \ {"cfour"} :
    \A k \in 1..Len(docs) :
      (LastDumper(format, docs[k])
         /\ DumpOf(format, WithoutEcp(docs[k]), opts).err = "none")
        => (err = "none" /\ warned = AnyEcp(docs[k]))

\* cfour.dumps returns its output for a document with ECP data, and never
\* warns that the data is ignored.
CfourNeverWarns ==
  \A k \in 1..Len(docs) :
    (LastDumper("cfour", docs[k])
       /\ DumpOf("cfour", WithoutEcp(docs[k]), opts).err = "none")
      => (err = "none" /\ ~warned)

\* What the dumper called last returned: the text of gaussian94.dumps, the
\* lines of another dumper.
LastOutput == IF ops[Len(ops)] = "dumps" THEN CurText ELSE out

\* C14: the string a dumper returns does not depend on ECP data: the call
\* on a document d with ECP data ends as the call on d with every ecp
\* record removed does, and returns the same string when it returns.
C14_OutputIgnoresEcp ==
  \A format \in Formats :
    \A k \in 1..Len(docs) :
      (LastDumper(format, docs[k]) /\ AnyEcp(docs[k]))
        => /\ err = DumpOf(format, WithoutEcp(docs[k]), opts).err
           /\ err = "none" => LastOutput = DumpOf(format, WithoutEcp(docs[k]), opts).val

\* A document loaded with ECP data has been dumped in Q-Chem format.
C14_Witness ==
  /\ ops = <<"loads", "qchem">> /\ err = "none"
  /\ AnyEcp(CurDoc) /\ WithoutEcp(CurDoc) # CurDoc
  /\ Len(out) > 2

----------------------------------------------------------------------------
(* The CFOUR output read back: an atom's section is seven header lines      *)
(* (title, description, an empty line, the number of angular momenta, the   *)
(* angular momenta, the number of contractions and the number of exponents  *)
(* of each), then for each angular momentum with n > 0 exponents an empty   *)
(* line, the exponents five to a line and n coefficient rows, then an       *)
(* empty line.                                                              *)

RefCfourBlockLen(n) == IF n = 0 THEN 0 ELSE 1 + (n + 4) \div 5 + n

RECURSIVE RefCfourBlocksLen(_, _)
\* The number of lines of the first j blocks of a section, nexps being its
\* line of declared numbers of exponents.
RefCfourBlocksLen(nexps, j) ==
  IF j = 0 THEN 0
  ELSE RefCfourBlocksLen(nexps, j - 1) + RefCfourBlockLen(nexps[j].v)

RECURSIVE RefCfourSection(_, _)
\* The line the section of atom a starts at.
RefCfourSection(lines, a) ==
  IF a = 1 THEN 1
  ELSE LET q == RefCfourSection(lines, a - 1)
       IN  q + 7 + RefCfourBlocksLen(lines[q + 6], Len(lines[q + 6])) + 1

\* In the section that starts at line q: the i-th listed exponent of the
\* j-th angular momentum, and the entry of its row e in column c.
RefCfourBlock(lines, q, j) == q + 7 + RefCfourBlocksLen(lines[q + 6], j - 1)
RefCfourListed(lines, q, j, i) ==
  lines[RefCfourBlock(lines, q, j) + 1 + (i - 1) \div 5][((i - 1) % 5) + 1]
RefCfourRow(lines, q, j, e) ==
  lines[RefCfourBlock(lines, q, j) + (lines[q + 6][j].v + 4) \div 5 + e]

\* The contractions of an atom with angular momentum am, as positions in
\* stored order, and the distinct exponents they use.
RefWithAm(functions, am) ==
  {f \in 1..Len(functions) : functions[f].angular_momentum = am}
RefUsed(fun) == {fun.exponents[i] : i \in 1..Len(fun.exponents)}
RefDistinct(functions, am) ==
  UNION {RefUsed(functions[f]) : f \in RefWithAm(functions, am)}

\* The place of exponent x among the exponents S in strictly descending
\* order, and the column of contraction f among those of its angular momentum.
RefPlace(S, x) == 1 + Cardinality({y \in S : y > x})
RefColumnOf(functions, f) ==
  Cardinality({g \in RefWithAm(functions, functions[f].angular_momentum) : g <= f})

\* Token tok prints a coefficient contraction fun has for exponent x, or 0
\* when fun does not use x.
RefIsEntry(tok, fun, x) ==
  IF x \in RefUsed(fun)
  THEN \E i \in 1..Len(fun.exponents) :
         /\ fun.exponents[i] = x /\ i <= Len(fun.coefficients)
         /\ tok = FmtExp(fun.coefficients[i])
  ELSE tok = FmtExp(0)

\* The block of the j-th angular momentum of the section at line q lists the
\* distinct exponents once each in strictly descending order, declares their
\* number and the number of contractions, and has a row for each exponent
\* with a column for each contraction.
RefCfourBlockOk(lines, q, j, functions) ==
  LET am == lines[q + 4][j].v
      S == RefDistinct(functions, am)
      cols == RefWithAm(functions, am)
  IN  /\ lines[q + 5][j] = I(Cardinality(cols))
      /\ lines[q + 6][j] = I(Cardinality(S))
      /\ RefCfourBlock(lines, q, j) + RefCfourBlockLen(Cardinality(S)) <= Len(lines)
      /\ \A x \in S :
           /\ RefCfourListed(lines, q, j, RefPlace(S, x)) = FmtExp(x)
           /\ Len(RefCfourRow(lines, q, j, RefPlace(S, x))) = Cardinality(cols)
           /\ \A f \in cols :
                RefIsEntry(RefCfourRow(lines, q, j, RefPlace(S, x))[RefColumnOf(functions, f)],
                           functions[f], x)

\* The section at line q is that of an atom with these contractions: its
\* header names each angular momentum present once, and each block is as
\* above.
RefCfourSectionOk(lines, q, functions) ==
  /\ q + 6 <= Len(lines)
  /\ Len(lines[q + 4]) = Cardinality({functions[f].angular_momentum : f \in 1..Len(functions)})
  /\ lines[q + 3] = <<I(Len(lines[q + 4]))>>
  /\ Len(lines[q + 5]) = Len(lines[q + 4]) /\ Len(lines[q + 6]) = Len(lines[q + 4])
  /\ \A f \in 1..Len(functions) :
       \E j \in 1..Len(lines[q + 4]) : lines[q + 4][j] = I(functions[f].angular_momentum)
  /\ \A j \in 1..Len(lines[q + 4]) : RefCfourBlockOk(lines, q, j, functions)

\* C15: for every AtomBasis and each angular momentum present in it,
\* cfour.dumps lists the distinct exponents of the contractions with that
\* angular momentum once each in strictly descending order, declares their
\* number and the number of contractions in the header lines, and emits a
\* coefficient row for each listed exponent with a column for each
\* contraction of that angular momentum in stored order, the entry being the
\* contraction's coefficient for the exponent, or 0 when it does not use it.
C15_CfourTabulation ==
  \A k \in 1..Len(docs) :
    (LastDumper("cfour", docs[k]) /\ err = "none")
      => \A a \in 1..Len(docs[k]) :
           RefCfourSectionOk(out, RefCfourSection(out, a), docs[k][a].functions)

\* cfour.dumps has returned for an atom with two contractions of one angular
\* momentum that share no exponent: eight exponents are listed on two lines,
\* and each row has a zero.
C15_Witness ==
  /\ ops # <<>> /\ ops[Len(ops)] = "cfour" /\ err = "none"
  /\ Len(CurDoc) = 2
  /\ Len(CurDoc[1].functions) = 2
  /\ CurDoc[1].functions[1].angular_momentum = CurDoc[1].functions[2].angular_momentum
  /\ Cardinality(RefDistinct(CurDoc[1].functions, CurDoc[1].functions[1].angular_momentum)) = 8
  /\ out[7] = <<I(8)>>

----------------------------------------------------------------------------
(* The output of the NWChem, Q-Chem, Orca and Turbomole dumpers read back:  *)
(* an opening line, for each atom its opening lines, a block of a header    *)
(* and n primitive lines for each contraction and its closing lines, and    *)
(* the closing lines of the format.                                         *)

ShellFormats == {"nwchem", "qchem", "orca", "turbomole"}

RefOpening(format) ==
  CASE format = "nwchem" -> <<<<W("basis")>>>>
    [] format = "qchem" -> <<<<W("$basis")>>>>
    [] format = "orca" -> <<<<W("%basis")>>>>
    [] format = "turbomole" -> <<<<W("$basis")>>>>
RefClosing(format) ==
  CASE format = "nwchem" -> <<<<W("end")>>, <<>>>>
    [] format = "qchem" -> <<<<W("$end")>>>>
    [] format = "orca" -> <<<<W("end")>>>>
    [] format = "turbomole" -> <<<<W("*")>>, <<W("$end")>>>>

\* The number of lines that open atom a (with the separator before it) and
\* that close it.
RefAtomHead(format, a) ==
  CASE format = "nwchem" -> 1
    [] format = "qchem" -> IF a = 1 THEN 1 ELSE 2
    [] format = "orca" -> 1
    [] format = "turbomole" -> 3
RefAtomTail(format) == IF format = "orca" THEN 1 ELSE 0

\* The significant digits a coefficient is printed with.
RefDigits(format) == IF format \in {"nwchem", "orca"} THEN 9 ELSE 8

RECURSIVE RefBlocksLen(_, _)
\* The number of lines of the blocks of the first f contractions.
RefBlocksLen(functions, f) ==
  IF f = 0 THEN 0
  ELSE RefBlocksLen(functions, f - 1) + 1 + Len(functions[f].coefficients)

RECURSIVE RefAtomStart(_, _, _)
\* The first line of atom a, and the header line of its f-th contraction.
RefAtomStart(format, d, a) ==
  IF a = 1 THEN 2
  ELSE RefAtomStart(format, d, a - 1) + RefAtomHead(format, a - 1)
       + RefBlocksLen(d[a - 1].functions, Len(d[a - 1].functions)) + RefAtomTail(format)
RefBlockStart(format, d, a, f) ==
  RefAtomStart(format, d, a) + RefAtomHead(format, a) + RefBlocksLen(d[a].functions, f - 1)

\* Line is the i-th primitive line of contraction fun: it ends with the
\* exponent and the coefficient, after the label i in Orca format.
RefIsPrimitive(format, line, fun, i) ==
  /\ Len(line) = (IF format = "orca" THEN 3 ELSE 2)
  /\ format = "orca" => line[1] = I(i)
  /\ line[Len(line) - 1] = FmtExp(fun.exponents[i])
  /\ line[Len(line)] = FmtG(fun.coefficients[i], RefDigits(format))

\* From line s on stands the block of contraction fun: a header with the
\* letter of its angular momentum and its primitive lines in stored order.
RefIsBlock(format, lines, s, fun) ==
  /\ s + Len(fun.coefficients) <= Len(lines)
  /\ \E c \in 1..Len(lines[s]) :
       /\ lines[s][c].k = "w"
       /\ Lower(lines[s][c].s) = Lower(PyGet(NUMBER_TO_AM, fun.angular_momentum))
  /\ \A i \in 1..Len(fun.coefficients) : RefIsPrimitive(format, lines[s + i], fun, i)

\* The lines are those of document d in a format.
RefIsShellOutput(format, lines, d) ==
  LET last == RefAtomStart(format, d, Len(d) + 1) - 1
  IN  /\ Len(lines) = last + Len(RefClosing(format))
      /\ SubSeq(lines, 1, 1) = RefOpening(format)
      /\ SubSeq(lines, last + 1, Len(lines)) = RefClosing(format)
      /\ \A a \in 1..Len(d) :
           /\ \A f \in 1..Len(d[a].functions) :
                RefIsBlock(format, lines, RefBlockStart(format, d, a, f), d[a].functions[f])
           /\ format = "orca" =>
                /\ lines[RefAtomStart(format, d, a)] = <<W("NewGTO"), I(d[a].atnum)>>
                /\ lines[RefAtomStart(format, d, a + 1) - 1] = <<W("end")>>

\* C16: the NWChem, Q-Chem, Orca and Turbomole dumpers emit, between the
\* opening and the closing lines of the format, a shell block for each
\* contraction in stored order for each AtomBasis in input order, each block
\* with a line for each pair of exponent and coefficient in stored order.
\* In Orca format the first line is %basis and the last is end, each atom
\* is opened by NewGTO and its atomic number and closed by its own end, and
\* the primitive lines of a block are labelled 1..n.
C16_ShellBlocks ==
  \A format \in ShellFormats :
    \A k \in 1..Len(docs) :
      (LastDumper(format, docs[k]) /\ err = "none")
        => RefIsShellOutput(format, out, docs[k])

\* orca.dumps has returned for a document of two atoms, the first with two
\* contractions, one of them of several primitives.
C16_Witness ==
  /\ ops # <<>> /\ ops[Len(ops)] = "orca" /\ err = "none"
  /\ Len(CurDoc) = 2
  /\ Len(CurDoc[1].functions) = 2 /\ Len(CurDoc[2].functions) = 1
  /\ Len(CurDoc[1].functions[1].coefficients) = 2
  /\ Len(out) > 8

----------------------------------------------------------------------------
(* The output of gaussian94.dumps read back *)

RECURSIVE RefG94Start(_, _)
\* The marker line that opens atom a, and the header line of its f-th
\* contraction.
RefG94Start(d, a) ==
  IF a = 1 THEN 1
  ELSE RefG94Start(d, a - 1) + 2 + RefBlocksLen(d[a - 1].functions, Len(d[a - 1].functions))
RefG94Block(d, a, f) == RefG94Start(d, a) + 2 + RefBlocksLen(d[a].functions, f - 1)

\* A data line: two numbers.
RefIsDataLine(line) == Len(line) = 2 /\ RefNumeric(line[1]) /\ RefNumeric(line[2])

\* From line s on stands the shell of contraction fun: a header with the
\* letter of its angular momentum and the number n of its primitives,
\* followed by exactly n data lines, of its exponents and coefficients in
\* stored order.
RefIsG94Shell(lines, s, fun) ==
  /\ s + Len(fun.coefficients) + 1 <= Len(lines)
  /\ Len(lines[s]) >= 2
  /\ lines[s][1] = W(PyGet(NUMBER_TO_AM, fun.angular_momentum))
  /\ lines[s][2] = I(Len(fun.coefficients))
  /\ \A i \in 1..Len(fun.coefficients) :
       /\ RefIsDataLine(lines[s + i])
       /\ lines[s + i] = <<FmtExp(fun.exponents[i]), FmtCoef(fun.coefficients[i])>>
  /\ ~RefIsDataLine(lines[s + Len(fun.coefficients) + 1])

\* The lines are those of document d: for each atom the marker, the
\* element line and the shells, then the final marker and a newline.
RefIsG94Output(lines, d) ==
  LET last == RefG94Start(d, Len(d) + 1) - 1
  IN  /\ Len(lines) = last + 2
      /\ lines[last + 1] = <<MARKER>> /\ lines[last + 2] = <<>>
      /\ \A a \in 1..Len(d) :
           /\ lines[RefG94Start(d, a)] = <<MARKER>>
           /\ Len(lines[RefG94Start(d, a) + 1]) = 2
           /\ RefKnown(lines[RefG94Start(d, a) + 1][1])
           /\ RefAtnum(lines[RefG94Start(d, a) + 1][1]) = d[a].atnum
           /\ lines[RefG94Start(d, a) + 1][2] = I(0)
           /\ \A f \in 1..Len(d[a].functions) :
                RefIsG94Shell(lines, RefG94Block(d, a, f), d[a].functions[f])

\* C17: gaussian94.dumps emits for each AtomBasis a **** line, the element
\* line and, for each contraction, a header with the letter of the angular
\* momentum and the number n of primitives followed by exactly n data
\* lines in stored order; the output ends with a final **** line followed by a newline,
\* also for the empty document.
C17_G94Layout ==
  \A k \in 1..Len(docs) :
    (LastDumper("dumps", docs[k]) /\ err = "none")
      => RefIsG94Output(CurText, docs[k])

\* gaussian94.dumps has returned for a document of two atoms, the first
\* with two contractions, one of them of several primitives.
C17_Witness ==
  /\ ops # <<>> /\ ops[Len(ops)] = "dumps" /\ err = "none"
  /\ Len(CurDoc) = 2
  /\ Len(CurDoc[1].functions) = 2 /\ Len(CurDoc[2].functions) = 1
  /\ Len(CurDoc[1].functions[1].coefficients) = 2
  /\ CurText[Len(CurText) - 1] = <<MARKER>>

\* gaussian94.dumps has returned for the empty document.
EmptyDocumentDumped ==
  /\ ops = <<"dumps">> /\ err = "none" /\ CurDoc = <<>>
  /\ CurText = <<<<MARKER>>, <<>>>>

\* C18: the element line of gaussian94.dumps carries the symbol in upper
\* case, for every element and so for those with a two-letter symbol.
C18_SymbolUpperCase ==
  \A k \in 1..Len(docs) :
    (LastDumper("dumps", docs[k]) /\ err = "none")
      => \A a \in 1..Len(docs[k]) :
           CurText[RefG94Start(docs[k], a) + 1][1]
             = W(Upper(PyGet(ElemList, docs[k][a].atnum)))

\* C18 as the code has it: the element line carries the symbol as the
\* element table spells it, He and not HE.
C18_SymbolAsInTable ==
  \A k \in 1..Len(docs) :
    (LastDumper("dumps", docs[k]) /\ err = "none")
      => \A a \in 1..Len(docs[k]) :
           CurText[RefG94Start(docs[k], a) + 1][1] = W(PyGet(ElemList, docs[k][a].atnum))

\* gaussian94.dumps has returned for a document with helium, whose symbol
\* the table spells otherwise than in upper case.
C18_Witness ==
  /\ ops # <<>> /\ ops[Len(ops)] = "dumps" /\ err = "none"
  /\ \E a \in 1..Len(CurDoc) :
       /\ CurDoc[a].atnum = 2
       /\ PyGet(ElemList, 2) # Upper(PyGet(ElemList, 2))
       /\ CurText[RefG94Start(CurDoc, a) + 1] = <<W("He"), I(0)>>

----------------------------------------------------------------------------
(* Totality of gaussian94.dumps *)

\* A document of the data model: every entry has an atomic number of the
\* element table and a list of contractions, whose angular momenta are
\* integers >= 0.
RefInModel(d) ==
  \A a \in 1..Len(d) :
    /\ d[a].atnum \in 0..(Len(ElemList) - 1)
    /\ "functions" \in DOMAIN d[a]
    /\ \A f \in 1..Len(d[a].functions) : d[a].functions[f].angular_momentum >= 0

\* No angular momentum of a document is above top.
RefAmsUpTo(d, top) ==
  \A p \in Functions(d) : d[p[1]].functions[p[2]].angular_momentum <= top

\* C19: gaussian94.dumps is total on the data model: for a document whose
\* atomic numbers are in the element table, whose angular momenta are
\* integers >= 0 and whose contractions have as many exponents as
\* coefficients it returns a string; its only failure is the FormatError
\* (ValueError in the code) raised for a length mismatch.
C19_DumpsTotal ==
  \A k \in 1..Len(docs) :
    (LastDumper("dumps", docs[k]) /\ RefInModel(docs[k]))
      => /\ err \in {"none", "ValueError"}
         /\ err = "ValueError" <=> Mismatch(docs[k])

\* C19 as the code has it: the same for angular momenta from 0 to 12, those
\* that have a letter in the table.
C19_DumpsTotalUpTo12 ==
  \A k \in 1..Len(docs) :
    (LastDumper("dumps", docs[k]) /\ RefInModel(docs[k]) /\ RefAmsUpTo(docs[k], 12))
      => /\ err \in {"none", "ValueError"}
         /\ err = "ValueError" <=> Mismatch(docs[k])

\* gaussian94.dumps has returned for a document of the data model with a
\* contraction of angular momentum 12, the last of the table.
C19_Witness ==
  /\ ops # <<>> /\ ops[Len(ops)] = "dumps" /\ err = "none"
  /\ RefInModel(CurDoc) /\ RefAmsUpTo(CurDoc, 12)
  /\ \E p \in Functions(CurDoc) : CurDoc[p[1]].functions[p[2]].angular_momentum = 12

\* gaussian94.dumps has raised for a length mismatch in a document of the
\* data model.
MismatchDumped ==
  /\ ops # <<>> /\ ops[Len(ops)] = "dumps" /\ err = "ValueError"
  /\ RefInModel(CurDoc) /\ RefAmsUpTo(CurDoc, 12) /\ Mismatch(CurDoc)

----------------------------------------------------------------------------
(* Termination of gaussian94.loads *)

\* C20: loads terminates on every finite text: whatever integers stand in
\* the count fields, it returns a document or raises an error after
\* finitely many steps.
C20_LoadsTerminates ==
  \A k \in 1..Len(texts) : LastLoads(texts[k]) => ~Raised("Diverge")

\* A shell header of a text declares a negative number of primitives.
NegativeCount(t) ==
  \E l \in 1..Len(t) :
    Len(t[l]) >= 2 /\ t[l][1].k = "w" /\ t[l][2].k = "i" /\ t[l][2].v < 0

\* What the code does: loads runs forever only on a negative count.
LoadsDivergesOnNegativeCountOnly ==
  \A k \in 1..Len(texts) :
    (LastLoads(texts[k]) /\ Raised("Diverge")) => NegativeCount(texts[k])

----------------------------------------------------------------------------
(* basis_format.dumps without a name and a description *)

\* The call of basis_format.dumps made last was for format, and left name
\* and description at their defaults.
LastDispatch(format) ==
  /\ ops = <<"basis_format.dumps">>
  /\ opts.format = format
  /\ IsNone(opts.name) /\ IsNone(opts.description)

SiblingKeys == {"cfour", "nwchem", "orca", "qchem", "turbomole", "pyscf"}

\* What the dumper of a format returns or raises, called on the document
\* alone.
RefAlone(format, d) ==
  CASE format = "cfour" -> DumpsCfour(d, EmptyDict)
    [] format = "nwchem" -> DumpsNwchem(d)
    [] format = "orca" -> DumpsOrca(d)
    [] format = "qchem" -> DumpsQchem(d)
    [] format = "turbomole" -> DumpsTurbomole(d, EmptyDict)
    [] format = "pyscf" -> DumpsPyscf(d)

\* C21: basis_format.dumps(format, data) with neither a name nor a
\* description returns the string of the format for every key of another
\* format: it returns whenever the dumper of the format, called on the
\* document alone, returns.
C21_NameAndDescriptionOptional ==
  \A format \in SiblingKeys :
    (LastDispatch(format)
       /\ RefAlone(format, CurDoc).err = "none")
      => err = "none"

\* Outside cfour it does, and returns what the dumper returns.
NameAndDescriptionOptionalOutsideCfour ==
  \A format \in SiblingKeys \ {"cfour", "turbomole"} :
    LastDispatch(format)
      => /\ err = RefAlone(format, CurDoc).err
         /\ out = RefAlone(format, CurDoc).val

\* turbomole returns as well, with the word None in the place of the name.
TurbomoleNamesNone ==
  (LastDispatch("turbomole") /\ err = "none")
    => \A a \in 1..Len(CurDoc) :
         \E i \in 1..Len(out) : Len(out[i]) = 2 /\ out[i][2] = W("None")

\* cfour raises on every document that has an entry it gets to.
CfourNeedsName ==
  (LastDispatch("cfour") /\ CurDoc # <<>>) => err # "none"

----------------------------------------------------------------------------
(* The format of the documentation of loads *)

\* The last line of a text that is a marker (0 when there is none).
RefLastMarker(t) ==
  LET ms == {i \in 1..Len(t) : t[i] = <<MARKER>>}
  IN  IF ms = {} THEN 0 ELSE CHOOSE i \in ms : \A j \in ms : j <= i

\* The lines of an element block that the documentation of loads writes
\* without the conventional further token: line i of text t is an element
\* line that is only the symbol, or a header line that is only the letter
\* and the count.  The element line is the first line after a marker that
\* is neither empty nor a comment; a header line begins with a word.
RefFirstOfBlock(t, i) ==
  /\ Len(t[i]) > 0 /\ ~IsCommentLine(t[i]) /\ t[i] # <<MARKER>>
  /\ \E m \in 1..(i - 1) :
       /\ t[m] = <<MARKER>>
       /\ \A j \in (m + 1)..(i - 1) : Len(t[j]) = 0 \/ IsCommentLine(t[j])
RefInBlock(t, i) ==
  /\ i < RefLastMarker(t)
  /\ \E m \in 1..(i - 1) : t[m] = <<MARKER>>
RefBareElement(t, i) ==
  RefInBlock(t, i) /\ RefFirstOfBlock(t, i) /\ Len(t[i]) = 1 /\ RefKnown(t[i][1])
RefBareHeader(t, i) ==
  /\ RefInBlock(t, i) /\ ~RefFirstOfBlock(t, i)
  /\ Len(t[i]) = 2 /\ t[i][1].k = "w" /\ ~IsCommentLine(t[i]) /\ t[i][2].k = "i"

\* The text with the conventional tokens written: "0" after a symbol that
\* stands alone, "1.00" after a count that ends its line.
RefConventional(t) ==
  [i \in 1..Len(t) |->
     IF RefBareElement(t, i) THEN Append(t[i], I(0))
     ELSE IF RefBareHeader(t, i) THEN Append(t[i], F(Unit))
     ELSE t[i]]

\* The text of the last call, when it was a call of loads.
LoadsCalled == IF ops # <<>> /\ ops[Len(ops)] = "loads" THEN {CurText} ELSE {}

\* C22: loads accepts the format of its documentation: a text whose element
\* lines are only the symbol or whose header lines are only the letter and
\* the count ends as the text with the conventional tokens written does,
\* with the same document when it is accepted.
C22_DocumentedFormatAccepted ==
  \A t \in LoadsCalled :
    (LastLoads(t) /\ RefConventional(t) # t)
      => \E r \in LoadsResults(RefConventional(t)) :
           /\ r.err = err
           /\ err = "none" => r.val = CurDoc

\* loads accepts no such text.
BareLinesRaise ==
  \A t \in LoadsCalled : RefConventional(t) # t => err # "none"

\* A call of loads on such a text that is accepted with the tokens written.
BareLinesAcceptedWhenWritten ==
  \E t \in LoadsCalled :
    /\ RefConventional(t) # t
    /\ \E r \in LoadsResults(RefConventional(t)) : r.err = "none"

----------------------------------------------------------------------------
(* Fortran notation *)

\* A token with d or D as its exponent marker, and the token with e or E in
\* its place.
RefFortran(tok) == tok.k = "x" /\ tok.s \in {"d", "D"}
RefWithE(t) ==
  [i \in 1..Len(t) |->
     [j \in 1..Len(t[i]) |->
        IF RefFortran(t[i][j]) THEN X(IF t[i][j].s = "d" THEN "e" ELSE "E", t[i][j].v)
        ELSE t[i][j]]]
RefHasFortran(t, lines) == \E i \in lines : \E j \in 1..Len(t[i]) : RefFortran(t[i][j])

\* C23: a number written with d or D as its exponent marker is parsed to the
\* value of the number with e or E in its place: loads ends on a text as on
\* the text with every such marker replaced, and returns the same document,
\* for the numbers of shells and of ECP components.
C23_FortranMarkers ==
  \A t \in LoadsCalled :
    RefHasFortran(t, 1..Len(t))
      => \E r \in LoadsResults(RefWithE(t)) :
           /\ r.err = err
           /\ err = "none" => r.val = CurDoc

\* A text with both markers in a shell was loaded.
C23_Witness ==
  \E t \in LoadsCalled :
    /\ err = "none"
    /\ \E i \in 1..RefLastMarker(t) : t[i] = LineD
    /\ \E e \in 1..Len(CurDoc) :
         \E f \in 1..Len(CurDoc[e].functions) :
           /\ CurDoc[e].functions[f].exponents = <<150000000>>
           /\ CurDoc[e].functions[f].coefficients = <<25000000>>

\* A text with the marker in an ECP component was loaded.
FortranMarkerInEcpLoaded ==
  \E t \in LoadsCalled :
    /\ err = "none"
    /\ RefHasFortran(t, (RefLastMarker(t) + 1)..Len(t))
    /\ \E e \in 1..Len(CurDoc) :
         /\ "ecp" \in DOMAIN CurDoc[e]
         /\ \E q \in 1..Len(CurDoc[e].ecp.radial_parts) :
              CurDoc[e].ecp.radial_parts[q].gaussian_exponents = <<150000000>>

----------------------------------------------------------------------------
(* Letter case *)

\* The tokens of a text that are element symbols or angular-momentum
\* letters: the first token of a line of an element block that begins with
\* a word, and the symbol of a line "symbol 0" after the last marker.
RefIsLetters(t, i, j) ==
  /\ j = 1 /\ Len(t[i]) > 0 /\ t[i][1].k = "w" /\ ~IsCommentLine(t[i]) /\ t[i] # <<MARKER>>
  /\ \/ RefInBlock(t, i)
     \/ i > RefLastMarker(t) /\ Len(t[i]) = 2 /\ t[i][2] = I(0) /\ RefKnown(t[i][1])

\* The text with every such token in upper case.
RefUpperCase(t) ==
  [i \in 1..Len(t) |->
     [j \in 1..Len(t[i]) |->
        IF RefIsLetters(t, i, j) THEN W(Upper(t[i][j].s)) ELSE t[i][j]]]

\* C24: the letter case of element symbols and of angular-momentum letters
\* (SP among them) does not matter to loads: it ends on a text as on the
\* text with all of them in upper case, and returns the same document; so
\* two texts that differ in the case of such tokens only are read alike.
C24_CaseInsensitive ==
  \A t \in LoadsCalled :
    RefUpperCase(t) # t
      => \E r \in LoadsResults(RefUpperCase(t)) :
           /\ r.err = err
           /\ err = "none" => r.val = CurDoc

\* A text with a symbol in lower case was loaded: the block "li 0".
C24_Witness ==
  \E t \in LoadsCalled :
    /\ err = "none"
    /\ \E i \in 1..Len(t) : RefIsLetters(t, i, 1) /\ t[i][1] = W("li")
    /\ \E e \in 1..Len(CurDoc) :
         /\ CurDoc[e].atnum = 3
         /\ "functions" \in DOMAIN CurDoc[e] /\ Len(CurDoc[e].functions) = 2

\* A text with the letters sp in lower case was loaded.
LowerCaseLettersLoaded ==
  \E t \in LoadsCalled :
    /\ err = "none"
    /\ \E i \in 1..Len(t) : RefIsLetters(t, i, 1) /\ t[i][1] = W("sp")

----------------------------------------------------------------------------
(* The shape of ECP records *)

\* Whether a radial part has the count of components that a line after a
\* line with its title declares, in what follows the last marker of text t.
RefDeclared(t, part) ==
  \E q \in 1..(Len(RefTrailing(t)) - 1) :
    /\ RefTrailing(t)[q] = part.title
    /\ RefTrailing(t)[q + 1] = <<I(Len(part.polynomial_powers))>>

\* C25: every ECP record of a document returned by loads has
\* max_angular_momentum + 1 radial parts, and in each radial part
\* polynomial_powers, gaussian_exponents and coefficients have the same
\* length, the count of components declared after the title line.
C25_EcpRecordShape ==
  \A p \in Returned :
    \A e \in 1..Len(p[2]) :
      "ecp" \in DOMAIN p[2][e]
        => /\ Len(p[2][e].ecp.radial_parts) = p[2][e].ecp.max_angular_momentum + 1
           /\ \A q \in 1..Len(p[2][e].ecp.radial_parts) :
                LET part == p[2][e].ecp.radial_parts[q]
                IN  /\ Len(part.gaussian_exponents) = Len(part.polynomial_powers)
                    /\ Len(part.coefficients) = Len(part.polynomial_powers)
                    /\ RefDeclared(p[1], part)

\* The records that declare neither a negative max_angular_momentum nor a
\* negative count of components have this shape.
EcpRecordShapeWithoutNegativeCounts ==
  \A p \in Returned :
    RefNoNegativeCount(p[1]) =>
      \A e \in 1..Len(p[2]) :
        "ecp" \in DOMAIN p[2][e]
          => /\ Len(p[2][e].ecp.radial_parts) = p[2][e].ecp.max_angular_momentum + 1
             /\ \A q \in 1..Len(p[2][e].ecp.radial_parts) :
                  LET part == p[2][e].ecp.radial_parts[q]
                  IN  /\ Len(part.gaussian_exponents) = Len(part.polynomial_powers)
                      /\ Len(part.coefficients) = Len(part.polynomial_powers)
                      /\ RefDeclared(p[1], part)

\* A record with a negative count of components was loaded.
NegativeComponentCountLoaded ==
  \E p \in Returned :
    \E e \in 1..Len(p[2]) :
      /\ "ecp" \in DOMAIN p[2][e]
      /\ Len(p[2][e].ecp.radial_parts) = 2
      /\ p[2][e].ecp.radial_parts[1].polynomial_powers = <<>>
      /\ p[2][e].ecp.radial_parts[2].title = <<I(-1)>>

----------------------------------------------------------------------------
(* Arguments and state *)

SiblingRaised ==
  ops # <<>> /\ ops[Len(ops)] \in Formats \ {"dumps"} /\ err # "none" /\ CurDoc # <<>>

----------------------------------------------------------------------------
(* One entry for each element block *)

\* The entries of a document that have cGTO functions.
RefWithFunctions(d) == {e \in 1..Len(d) : "functions" \in DOMAIN d[e]}

\* C27: every element block between two consecutive markers contributes its
\* own AtomBasis: the document returned by loads has as many entries with
\* cGTO functions as the text has element blocks, also when two blocks name
\* the same element.
C27_OneEntryPerBlock ==
  \A p \in Returned : Cardinality(RefWithFunctions(p[2])) = Len(RefBlocks(p[1]))

\* It has for the texts in which no two blocks name the same element.
OneEntryPerBlockOfDistinctElements ==
  \A p \in Returned :
    DistinctElements(p[1]) => Cardinality(RefWithFunctions(p[2])) = Len(RefBlocks(p[1]))

\* Otherwise it has an entry for each element named, with the shells of the
\* last block that names it.
OneEntryPerElement ==
  \A p \in Returned :
    /\ Cardinality(RefWithFunctions(p[2]))
         = Cardinality({Lower(RefBlocks(p[1])[b][1][1].s) : b \in 1..Len(RefBlocks(p[1]))})
    /\ \A e \in RefWithFunctions(p[2]) :
         HasBlock(p[1], p[2][e].atnum)
           /\ p[2][e].functions = RefFunctions(StemBlock(p[1], p[2][e].atnum), 2)

----------------------------------------------------------------------------
(* cfour: every primitive in the matrix *)

\* basis_format.dumps was called last for cfour and returned.
CfourReturned ==
  ops = <<"basis_format.dumps">> /\ opts.format = "cfour" /\ err = "none"

\* In the section of atom a in lines, the entry in the row of exponent x and
\* the column of contraction f.
RefCfourEntry(lines, functions, a, f, x) ==
  LET q == RefCfourSection(lines, a)
      am == functions[f].angular_momentum
      j == CHOOSE j \in 1..Len(lines[q + 4]) : lines[q + 4][j] = I(am)
  IN  RefCfourRow(lines, q, j, RefPlace(RefDistinct(functions, am), x))[RefColumnOf(functions, f)]

\* The positions of a contraction at which it has an exponent and a
\* coefficient.
RefPairs(fun) ==
  {i \in 1..Len(fun.exponents) : i <= Len(fun.coefficients)}

\* C28: cfour.dumps loses no primitive: for every contraction and each of
\* its pairs of exponent and coefficient, the matrix has the coefficient in
\* the row of the exponent and the column of the contraction, also when the
\* exponent occurs more than once in the contraction.
C28_CfourLosesNoPrimitive ==
  CfourReturned
    => \A a \in 1..Len(CurDoc) :
         \A f \in 1..Len(CurDoc[a].functions) :
           \A i \in RefPairs(CurDoc[a].functions[f]) :
             RefCfourEntry(out, CurDoc[a].functions, a, f, CurDoc[a].functions[f].exponents[i])
               = FmtExp(CurDoc[a].functions[f].coefficients[i])

\* It loses none of a contraction whose exponents differ from one another.
RefNoRepeat(fun) ==
  \A i, k \in 1..Len(fun.exponents) : fun.exponents[i] = fun.exponents[k] => i = k
CfourLosesNoPrimitiveOfDistinctExponents ==
  CfourReturned
    => \A a \in 1..Len(CurDoc) :
         \A f \in 1..Len(CurDoc[a].functions) :
           RefNoRepeat(CurDoc[a].functions[f]) =>
             \A i \in RefPairs(CurDoc[a].functions[f]) :
               RefCfourEntry(out, CurDoc[a].functions, a, f,
                             CurDoc[a].functions[f].exponents[i])
                 = FmtExp(CurDoc[a].functions[f].coefficients[i])

\* Of an exponent that occurs more than once it prints the coefficient of
\* the first occurrence.
CfourPrintsFirstOccurrence ==
  CfourReturned
    => \A a \in 1..Len(CurDoc) :
         \A f \in 1..Len(CurDoc[a].functions) :
           \A i \in RefPairs(CurDoc[a].functions[f]) :
             LET fun == CurDoc[a].functions[f]
                 first == CHOOSE k \in 1..i :
                            /\ fun.exponents[k] = fun.exponents[i]
                            /\ \A m \in 1..(k - 1) : fun.exponents[m] # fun.exponents[i]
             IN  RefCfourEntry(out, CurDoc[a].functions, a, f, fun.exponents[i])
                   = FmtExp(fun.coefficients[first])

----------------------------------------------------------------------------
(* Storage: the lists a returned document is made of.  A caller that       *)
(* changes a list in place changes every contraction that holds this list. *)

RECURSIVE BlockCells(_, _)
\* __parse_element_block: for each contraction the loop appends from line
\* idx on, the iteration (the line of its header) that created the list
\* stored as its exponents.  An SP shell stores one list in both of its
\* contractions; every other shell creates a list of its own.
BlockCells(lines, idx) ==
  IF ~(idx < Len(lines)) THEN <<>>
  ELSE IF Upper(PyGet(lines, idx)[1].s) = "SP"
  THEN <<idx, idx>> \o BlockCells(lines, idx + PyGet(lines, idx)[2].v + 1)
  ELSE <<idx>> \o BlockCells(lines, idx + PyGet(lines, idx)[2].v + 1)

\* loads: the lines of the block that cgtos[atnum] was parsed from, the last
\* of blocks[1:-1] that names the element.
CgtoLines(text, atnum) ==
  LET bs == SplitBlocks(text)
      named == {b \in 2..(Len(bs) - 1) :
                  Index([i \in 1..Len(ElemList) |-> Lower(ElemList[i])],
                        Lower(StripComments(bs[b])[1][1].s)) = atnum}
  IN  StripComments(bs[CHOOSE b \in named : \A c \in named : c <= b])

\* Whether contractions f and g of an entry hold the same exponents list.
SameExponents(text, entry, f, g) ==
  BlockCells(CgtoLines(text, entry.atnum), 1)[f]
    = BlockCells(CgtoLines(text, entry.atnum), 1)[g]

\* The value a caller appends to an exponents list.
AppendInputs == {Unit}

\* The texts a document is loaded from.
InitStorage ==
  /\ ops = <<>>
  /\ err = "none"
  /\ warned = FALSE
  /\ out = <<>>
  /\ opts = EmptyDict
  /\ docs = <<>>
  /\ texts \in {<<t>> : t \in TextInputs}

\* doc[entry]["functions"][function]["exponents"].append(value) by the
\* caller, on the document loads returned: docs gains the document as it is
\* after the call, opts holds what the call was applied to.
AppendExponent ==
  /\ ops = <<"loads">> /\ err = "none"
  /\ \E entry \in 1..Len(CurDoc) : \E value \in AppendInputs :
       /\ "functions" \in DOMAIN CurDoc[entry]
       /\ \E function \in 1..Len(CurDoc[entry].functions) :
            /\ docs' = Append(docs,
                 [e \in 1..Len(CurDoc) |->
                    IF e # entry THEN CurDoc[e]
                    ELSE [CurDoc[e] EXCEPT !.functions =
                            [g \in 1..Len(CurDoc[e].functions) |->
                               IF SameExponents(CurText, CurDoc[e], function, g)
                               THEN [CurDoc[e].functions[g] EXCEPT
                                       !.exponents = Append(@, value)]
                               ELSE CurDoc[e].functions[g]]]])
            /\ opts' = [entry |-> entry, function |-> function, value |-> value]
       /\ ops' = Append(ops, "append")
       /\ UNCHANGED <<texts, err, warned, out>>

SpecStorage == InitStorage /\ [][Loads \/ AppendExponent]_vars

\* The caller has appended to the exponents of a contraction of the
\* document loads returned.
Appended == ops = <<"loads", "append">>

\* C29: no two contractions of a document returned by loads share storage:
\* after a change in place of the exponents of one contraction every other
\* contraction of the document is as it was, the other contraction of the
\* same SP shell among them.
C29_NoSharedStorage ==
  Appended
    => \A e \in 1..Len(docs[1]) :
         "functions" \in DOMAIN docs[1][e] =>
           \A f \in 1..Len(docs[1][e].functions) :
             <<e, f>> # <<opts.entry, opts.function>>
               => docs[2][e].functions[f] = docs[1][e].functions[f]

\* The contractions of an entry that stem from an SP shell, by the grammar:
\* the positions of the two contractions of each SP header of its block.
RefSPPartners(t, entry) ==
  LET block == StemBlock(t, entry.atnum)
  IN  {<<RefPosition(block, h) + 1, RefPosition(block, h) + 2>> :
         h \in {i \in RefHeaders(block) : RefIsSP(block[i])}}

\* Only the other contraction of the same SP shell changes with it, and it
\* always does.
OnlySPPartnersShare ==
  Appended
    => \A e \in 1..Len(docs[1]) :
         "functions" \in DOMAIN docs[1][e] =>
           \A f \in 1..Len(docs[1][e].functions) :
             <<e, f>> # <<opts.entry, opts.function>>
               => IF e = opts.entry /\ (<<f, opts.function>> \in RefSPPartners(texts[1], docs[1][e])
                                          \/ <<opts.function, f>> \in RefSPPartners(texts[1], docs[1][e]))
                  THEN docs[2][e].functions[f].exponents
                         = Append(docs[1][e].functions[f].exponents, opts.value)
                  ELSE docs[2][e].functions[f] = docs[1][e].functions[f]

----------------------------------------------------------------------------
(* Comment lines *)

\* Lines that begin with "!" in column 0, and a text with such a line put
\* in after its line i (before its first line for i = 0).
RefComments ==
  { <<W("!"), W("note")>>, <<W("!"), W("H"), I(0)>>, <<W("!"), MARKER>>,
    <<W("!"), W("see"), MARKER, W("below")>> }
RefInsert(t, i, line) == SubSeq(t, 1, i) \o <<line>> \o SubSeq(t, i + 1, Len(t))

\* C30: comment lines never change the parse: a text accepted by loads with
\* a line that begins with "!" put in between two of its lines, before its
\* first or after its last line, whatever follows the "!", is accepted with
\* the same document.
C30_CommentsNeverChangeTheParse ==
  \A p \in Returned :
    \A i \in 0..Len(p[1]) :
      \A line \in RefComments :
        \E r \in LoadsResults(RefInsert(p[1], i, line)) :
          r.err = "none" /\ r.val = p[2]

\* A comment line in which no marker occurs changes nothing.
CommentsWithoutMarkerChangeNothing ==
  \A p \in Returned :
    \A i \in 0..Len(p[1]) :
      \A line \in {c \in RefComments : \A j \in 1..Len(c) : c[j] # MARKER} :
        \E r \in LoadsResults(RefInsert(p[1], i, line)) :
          r.err = "none" /\ r.val = p[2]

\* A comment line in which a marker occurs always does: the text is refused
\* or read to another document.
CommentsWithMarkerChangeTheParse ==
  \A p \in Returned :
    \A i \in 0..Len(p[1]) :
      \A line \in {c \in RefComments : \E j \in 1..Len(c) : c[j] = MARKER} :
        \A r \in LoadsResults(RefInsert(p[1], i, line)) :
          r.err # "none" \/ r.val # p[2]

====
